---- MODULE Spec2Model ----
(***************************************************************************)
(* Model of conjuring (andreoliwa/conjuring): the task discovery and       *)
(* registration mechanism of conjuring.grimoire and the "conjuring init"   *)
(* command of conjuring.cli.                                               *)
(*                                                                         *)
(* Names (task names, module names, glob patterns) are sequences of        *)
(* symbols: a word ("task", "git") or one of the separator characters      *)
(* ".", "_", "-" and the glob star "*".  "task_d" is <<"task","_","d">>.   *)
(* Every concatenation the code makes puts a separator between two words,  *)
(* so a name has one representation.                                       *)
(*                                                                         *)
(* A Python dict (insertion ordered) is a sequence of [k, v] records.      *)
(***************************************************************************)
EXTENDS Integers, Sequences, FiniteSets, TLC

VARIABLES
    environ,        \* os.environ / current directory facts read by the visibility predicates
    ignore_modules, \* CONJURING_IGNORE_MODULES, split on ","
    config,         \* ConjuringConfig: [include, exclude] passed to every call
    to_collection,  \* the invoke Collection the tasks are merged into
    filesystem,     \* the files the calls read and write: the Python files of the current and
                    \* the home directory, or ~/.invoke.yaml and ~/conjuring_init.py
    calls,          \* number of calls made so far
    last            \* what the last call was given and how it ended

vars == <<environ, ignore_modules, config, to_collection, filesystem, calls, last>>

\* How many calls one run makes.
MaxCalls == 2

----------------------------------------------------------------------------
(* Strings *)

Replace(s, from, to) == [i \in 1..Len(s) |-> IF s[i] = from THEN to ELSE s[i]]

\* "ignore_str in module_name": a contiguous run of module_name equals ignore_str.
Contains(s, sub) ==
    \E i \in 0..(Len(s) - Len(sub)) : SubSeq(s, i + 1, i + Len(sub)) = sub

\* name.split(".")[-1]
LastDotted(name) ==
    LET dots == {i \in 1..Len(name) : name[i] = "."}
        from == IF dots = {} THEN 1 ELSE 1 + CHOOSE i \in dots : \A j \in dots : j <= i
    IN  SubSeq(name, from, Len(name))

slugify(name) == Replace(name, ".", "_")

guess_full_task_name(prefix, name) ==
    LET formatted_task_name == Replace(slugify(name), "_", "-")
    IN  IF prefix # <<>> THEN prefix \o <<".">> \o formatted_task_name
        ELSE formatted_task_name

\* invoke's Collection.transform with auto_dash_names: an underscore becomes a
\* dash unless it is the first or last character or stands next to a dot.
transform(name) ==
    [i \in 1..Len(name) |->
        IF /\ i \notin {1, Len(name)}
           /\ name[i] = "_"
           /\ name[i - 1] # "."
           /\ name[i + 1] # "."
        THEN "-" ELSE name[i]]

\* fnmatch.fnmatch for patterns made of literal symbols and "*".
RECURSIVE fnmatch(_, _)
fnmatch(name, pat) ==
    IF pat = <<>> THEN name = <<>>
    ELSE IF Head(pat) = "*"
         THEN fnmatch(name, Tail(pat)) \/ (name # <<>> /\ fnmatch(Tail(name), pat))
         ELSE /\ name # <<>>
              /\ Head(pat) = Head(name)
              /\ fnmatch(Tail(name), Tail(pat))

----------------------------------------------------------------------------
(* Insertion-ordered dicts *)

Keys(d) == {d[i].k : i \in DOMAIN d}
Has(d, key) == \E i \in DOMAIN d : d[i].k = key
Get(d, key) == d[CHOOSE i \in DOMAIN d : d[i].k = key].v
Put(d, key, val) ==
    IF Has(d, key)
    THEN [i \in DOMAIN d |-> IF d[i].k = key THEN [k |-> key, v |-> val] ELSE d[i]]
    ELSE Append(d, [k |-> key, v |-> val])
Values(d) == [i \in DOMAIN d |-> d[i].v]

----------------------------------------------------------------------------
(* Visibility predicates *)

\* Calling a predicate: should_display_tasks of a module ("none" when the module
\* defines none: getattr's default, lambda: True) or should_display of a MagicTask.
Call(predicate, env) ==
    CASE predicate = "none" -> TRUE
      [] predicate = "always_visible" -> TRUE
      [] predicate = "is_git_repo" -> "is_git_repo" \in env
      [] predicate = "DISPLAY" -> "DISPLAY" \in env
      [] predicate = "INDIVIDUAL" -> "INDIVIDUAL" \in env

\* display_task returning True for every regular task.
display_task_without_module_flag(task, module_flag, env) ==
    IF task.klass = "MagicTask"
    THEN Call(task.should_display, env)
    ELSE TRUE

display_task(task, module_flag, env) ==
    IF task.klass = "MagicTask"
    THEN Call(task.should_display, env)
    ELSE module_flag

----------------------------------------------------------------------------
(* Modules with tasks *)

Task(name, module) ==
    [name |-> name, module |-> module, klass |-> "Task", should_display |-> "none"]
MagicTask(name, module, should_display) ==
    [name |-> name, module |-> module, klass |-> "MagicTask",
     should_display |-> should_display]

not_prefixed ==
    [name |-> <<"tests", ".", "fixtures", ".", "not", "_", "prefixed">>,
     SHOULD_PREFIX |-> FALSE, should_display_tasks |-> "none",
     tasks |-> << Task(<<"task", "_", "c">>, "not_prefixed"),
                  Task(<<"task", "_", "d">>, "not_prefixed") >>]

same ==
    [name |-> <<"tests", ".", "fixtures", ".", "same">>,
     SHOULD_PREFIX |-> FALSE, should_display_tasks |-> "none",
     tasks |-> << Task(<<"task", "_", "d">>, "same") >>]

conditional ==
    [name |-> <<"tests", ".", "fixtures", ".", "conditional">>,
     SHOULD_PREFIX |-> FALSE, should_display_tasks |-> "DISPLAY",
     tasks |-> << Task(<<"task", "_", "e">>, "conditional"),
                  Task(<<"task", "_", "f">>, "conditional") >>]

magic ==
    [name |-> <<"tests", ".", "fixtures", ".", "magic">>,
     SHOULD_PREFIX |-> FALSE, should_display_tasks |-> "INDIVIDUAL",
     tasks |-> << Task(<<"depends", "_", "on", "_", "the", "_", "module", "_", "config">>,
                       "magic"),
                  MagicTask(<<"this", "_", "task", "_", "is", "_", "always", "_", "visible">>,
                            "magic", "always_visible") >>]

blanket ==
    [name |-> <<"conjuring", ".", "spells", ".", "blanket">>,
     SHOULD_PREFIX |-> FALSE, should_display_tasks |-> "none",
     tasks |-> << Task(<<"todo">>, "blanket") >>]

generic ==
    [name |-> <<"conjuring", ".", "spells", ".", "generic">>,
     SHOULD_PREFIX |-> FALSE, should_display_tasks |-> "none",
     tasks |-> << Task(<<"todo">>, "generic") >>]

\* conjuring.spells.git, with one MagicTask and one regular task of its tasks.
git ==
    [name |-> <<"conjuring", ".", "spells", ".", "git">>,
     SHOULD_PREFIX |-> TRUE, should_display_tasks |-> "is_git_repo",
     tasks |-> << MagicTask(<<"update", "_", "all">>, "git", "always_visible"),
                  Task(<<"tidy", "_", "up">>, "git") >>]

\* A project's tasks.py: a task named like a spell module, and a MagicTask with
\* its own condition.
tasks ==
    [name |-> <<"tasks">>,
     SHOULD_PREFIX |-> FALSE, should_display_tasks |-> "none",
     tasks |-> << Task(<<"git">>, "tasks"),
                  MagicTask(<<"deploy">>, "tasks", "is_git_repo") >>]

\* ~/tasks.py, the tasks of the home directory: a second module named tasks.
home_tasks ==
    [name |-> <<"tasks">>,
     SHOULD_PREFIX |-> FALSE, should_display_tasks |-> "none",
     tasks |-> << Task(<<"fixme">>, "home_tasks"),
                  Task(<<"fork", "_", "sync">>, "home_tasks") >>]

\* A file the pattern glob*.py finds.
glob_tasks ==
    [name |-> <<"glob", "_", "tasks">>,
     SHOULD_PREFIX |-> FALSE, should_display_tasks |-> "none",
     tasks |-> << Task(<<"glob", "_", "c">>, "glob_tasks"),
                  Task(<<"glob", "_", "d">>, "glob_tasks") >>]

\* A second file the pattern glob*.py finds, with a task of the same name.
glob_more ==
    [name |-> <<"glob", "_", "more">>,
     SHOULD_PREFIX |-> FALSE, should_display_tasks |-> "DISPLAY",
     tasks |-> << Task(<<"glob", "_", "d">>, "glob_more"),
                  Task(<<"fixme">>, "glob_more") >>]

\* The current module of the test of collection_from_python_files.
root ==
    [name |-> <<"tests", ".", "fixtures", ".", "root">>,
     SHOULD_PREFIX |-> TRUE, should_display_tasks |-> "none",
     tasks |-> << Task(<<"a">>, "root"), Task(<<"b">>, "root") >>]

\* The modules magically_add_tasks is called with directly.
ModuleIds ==
    {"not_prefixed", "same", "conditional", "magic", "blanket", "generic", "git", "tasks"}

\* The modules that exist only as files of the searched directories.
FileModuleIds == {"home_tasks", "glob_tasks", "glob_more", "root"}

Modules ==
    [id \in ModuleIds \cup FileModuleIds |->
        CASE id = "not_prefixed" -> not_prefixed
          [] id = "same" -> same
          [] id = "conditional" -> conditional
          [] id = "magic" -> magic
          [] id = "blanket" -> blanket
          [] id = "generic" -> generic
          [] id = "git" -> git
          [] id = "tasks" -> tasks
          [] id = "home_tasks" -> home_tasks
          [] id = "glob_tasks" -> glob_tasks
          [] id = "glob_more" -> glob_more
          [] id = "root" -> root]

\* importlib.import_module(name): the module of that dotted name.
import_module(name) == CHOOSE id \in ModuleIds : Modules[id].name = name

----------------------------------------------------------------------------
(* invoke.Collection *)

Collection == [tasks |-> <<>>, collections |-> <<>>, raised |-> "none"]

\* Collection.add_task(task, name): the name is transformed; a sub-collection of
\* that name is a conflict; an existing task of that name is replaced.
add_task(collection, task, name) ==
    LET key == transform(IF name = <<>> THEN task.name ELSE name)
    IN  IF collection.raised # "none" THEN collection
        ELSE IF Has(collection.collections, key)
             THEN [collection EXCEPT !.raised = "ValueError: sub-collection named"]
             ELSE [collection EXCEPT !.tasks = Put(@, key, task)]

\* Collection.add_collection(coll, name): the name is transformed; a task of
\* that name is a conflict.
add_collection(collection, coll, name) ==
    LET key == transform(name)
    IN  IF collection.raised # "none" THEN collection
        ELSE IF Has(collection.tasks, key)
             THEN [collection EXCEPT !.raised = "ValueError: task named"]
             ELSE [collection EXCEPT !.collections = Put(@, key, [tasks |-> coll.tasks])]

RECURSIVE add_all_tasks(_, _)
add_all_tasks(collection, ts) ==
    IF ts = <<>> THEN collection
    ELSE add_all_tasks(add_task(collection, Head(ts), <<>>), Tail(ts))

\* Collection.from_module(module): every Task among vars(module), in order.
from_module(id) == add_all_tasks(Collection, Modules[id].tasks)

\* Collection.task_names: own tasks, then "<sub-collection>.<task>".
RECURSIVE sub_task_names(_)
sub_task_names(colls) ==
    IF colls = <<>> THEN <<>>
    ELSE [i \in DOMAIN Head(colls).v.tasks |->
              Head(colls).k \o <<".">> \o transform(Head(colls).v.tasks[i].k)]
         \o sub_task_names(Tail(colls))

task_names(collection) ==
    [i \in DOMAIN collection.tasks |-> collection.tasks[i].k]
    \o sub_task_names(collection.collections)

----------------------------------------------------------------------------
(* conjuring.grimoire *)

ignore_module(module_name, ignored) ==
    \E i \in DOMAIN ignored : ignored[i] # <<>> /\ Contains(module_name, ignored[i])

\* The module (its id), or "None" when its name is ignored.  A module object and
\* its dotted name are two inputs: [module |-> id] and [str |-> name].
resolve_module_str(module_or_str, ignored) ==
    IF "str" \in DOMAIN module_or_str
    THEN LET module == import_module(module_or_str.str)
         IN  IF ignore_module(module_or_str.str, ignored) THEN "None" ELSE module
    ELSE LET module == module_or_str.module
         IN  IF ignore_module(Modules[module].name, ignored) THEN "None" ELSE module

_is_task_present(name, list_) ==
    IF list_ = <<>> THEN TRUE
    ELSE \E i \in DOMAIN list_ : fnmatch(name, list_[i])

\* should_add with include winning over exclude.
should_add_include_wins(task, include, exclude, prefix) ==
    LET guessed_name == guess_full_task_name(prefix, task.name)
        should_include == include = <<>> \/ _is_task_present(guessed_name, include)
        should_exclude == exclude # <<>> /\ _is_task_present(guessed_name, exclude)
    IN  should_include \/ ~should_exclude

\* The value add_single_task_to returns: whether the filters let the task in.
should_add(task, include, exclude, prefix) ==
    LET guessed_name == guess_full_task_name(prefix, task.name)
        should_include == include = <<>> \/ _is_task_present(guessed_name, include)
        should_exclude == exclude # <<>> /\ _is_task_present(guessed_name, exclude)
    IN  should_include /\ ~should_exclude

\* The collection add_single_task_to leaves behind.
add_single_task_to(collection, task, include, exclude, prefix, task_name) ==
    IF should_add(task, include, exclude, prefix)
    THEN add_task(collection, task, task_name)
    ELSE collection

\* The first loop of magically_add_tasks over the tasks of the module: w is
\* [collection, prefixed_spell_books], a the arguments of the call.
RECURSIVE add_direct_tasks(_, _, _)
add_direct_tasks(w, ts, a) ==
    IF ts = <<>> \/ w.collection.raised # "none" THEN w
    ELSE
      LET t == Head(ts)
          task_module == Modules[t.module]
          display_all_tasks == Call(task_module.should_display_tasks, a.env)
          use_prefix == task_module.SHOULD_PREFIX
          prefix == LastDotted(task_module.name)
          new_task_name == t.name \o <<"-">> \o slugify(Modules[a.resolved_module].name)
      IN  IF use_prefix
          THEN add_direct_tasks(
                 [w EXCEPT !.prefixed_spell_books =
                     Append(@, [prefix |-> prefix, module |-> t.module,
                                display_all_tasks |-> display_all_tasks])],
                 Tail(ts), a)
          ELSE IF ~display_task(t, display_all_tasks, a.env)
          THEN add_direct_tasks(w, Tail(ts), a)
          ELSE IF Has(w.collection.tasks, t.name) /\ a.resolved_module # "None"
          THEN add_direct_tasks(
                 [w EXCEPT !.collection =
                     add_single_task_to(@, t, a.include, a.exclude, <<>>, new_task_name)],
                 Tail(ts), a)
          ELSE add_direct_tasks(
                 [w EXCEPT !.collection =
                     add_single_task_to(@, t, a.include, a.exclude, <<>>, <<>>)],
                 Tail(ts), a)

\* prefixed_spell_books.items(): the books grouped by prefix, prefixes in the
\* order they were first seen.
RECURSIVE books_by_prefix(_)
books_by_prefix(books) ==
    IF books = <<>> THEN <<>>
    ELSE LET SamePrefix(b) == b.prefix = Head(books).prefix
             OtherPrefix(b) == b.prefix # Head(books).prefix
         IN  SelectSeq(books, SamePrefix) \o books_by_prefix(SelectSeq(books, OtherPrefix))

\* add_prefixed_tasks asking the module only, not display_task.
RECURSIVE add_prefixed_tasks_by_module_flag(_, _, _, _)
add_prefixed_tasks_by_module_flag(sub_collection, ts, spell_book, a) ==
    IF ts = <<>> THEN sub_collection
    ELSE add_prefixed_tasks_by_module_flag(
           IF spell_book.display_all_tasks
           THEN add_single_task_to(sub_collection, Head(ts), a.include, a.exclude,
                                   spell_book.prefix, <<>>)
           ELSE sub_collection,
           Tail(ts), spell_book, a)

\* The sub-collection built for one PrefixedSpellbook.
RECURSIVE add_prefixed_tasks(_, _, _, _)
add_prefixed_tasks(sub_collection, ts, spell_book, a) ==
    IF ts = <<>> THEN sub_collection
    ELSE add_prefixed_tasks(
           IF display_task(Head(ts), spell_book.display_all_tasks, a.env)
           THEN add_single_task_to(sub_collection, Head(ts), a.include, a.exclude,
                                   spell_book.prefix, <<>>)
           ELSE sub_collection,
           Tail(ts), spell_book, a)

\* to_collection.add_collection(sub_collection, prefix), and on the conflict with
\* a task name the whole module under "<prefix>_<slugified module name>".
add_spell_book(collection, spell_book, a) ==
    LET sub_collection ==
            add_prefixed_tasks(Collection, Values(from_module(spell_book.module).tasks),
                               spell_book, a)
        added == add_collection(collection, sub_collection, spell_book.prefix)
    IN  IF added.raised = "ValueError: task named"
        THEN add_collection(collection, from_module(spell_book.module),
                            spell_book.prefix \o <<"_">>
                                \o slugify(Modules[spell_book.module].name))
        ELSE added

RECURSIVE add_spell_books(_, _, _)
add_spell_books(collection, books, a) ==
    IF books = <<>> \/ collection.raised # "none" THEN collection
    ELSE add_spell_books(add_spell_book(collection, Head(books), a), Tail(books), a)

\* magically_add_tasks(to_collection, from_module_or_str, include=, exclude=) under
\* the environment env and the ignore list: the collection it leaves behind, with
\* the exception it raised if any.
magically_add_tasks(collection, from_module_or_str, include, exclude, env, ignored) ==
    LET resolved_module == resolve_module_str(from_module_or_str, ignored)
        a == [resolved_module |-> resolved_module, include |-> include,
              exclude |-> exclude, env |-> env]
    IN  IF resolved_module = "None"
        THEN \* Collection.from_module(None)
             [collection EXCEPT !.raised = "AttributeError"]
        ELSE LET direct == add_direct_tasks(
                               [collection |-> collection, prefixed_spell_books |-> <<>>],
                               Values(from_module(resolved_module).tasks), a)
             IN  add_spell_books(direct.collection,
                                 books_by_prefix(direct.prefixed_spell_books), a)

----------------------------------------------------------------------------
(* The calls *)

\* What os.environ and the current directory make the predicates return.
Environments == SUBSET {"DISPLAY", "INDIVIDUAL", "is_git_repo"}

\* os.environ.get("CONJURING_IGNORE_MODULES", "").split(","): unset, or "git".
IgnoreLists == { << <<>> >>, << <<"git">> >> }

\* include/exclude as Spellbook.cast_all, cast_only and cast_all_except pass
\* them, and both at once as magically_add_tasks accepts them.
FilterConfigs ==
    { [include |-> <<>>, exclude |-> <<>>],
      [include |-> << <<"git", "*">> >>, exclude |-> <<>>],
      [include |-> <<>>, exclude |-> << <<"git", "*">>, <<"todo">> >>],
      [include |-> << <<"task", "*">>, <<"git", ".", "*">> >>,
       exclude |-> << <<"*", "-", "d">>, <<"*", "tidy", "*">> >>] }

ModuleArguments ==
    {[module |-> id] : id \in ModuleIds} \cup {[str |-> Modules[id].name] : id \in ModuleIds}

Init ==
    /\ environ \in Environments
    /\ ignore_modules \in IgnoreLists
    /\ config \in FilterConfigs
    /\ to_collection = [tasks |-> <<>>, collections |-> <<>>]
    /\ filesystem = [cwd |-> "home", files |-> {}]
    /\ calls = 0
    /\ last = [op |-> "none"]

\* magically_add_tasks(to_collection, from_module_or_str, include=, exclude=)
MagicallyAddTasks(from_module_or_str) ==
    /\ calls < MaxCalls
    /\ LET done == magically_add_tasks(
                       [tasks |-> to_collection.tasks,
                        collections |-> to_collection.collections,
                        raised |-> "none"],
                       from_module_or_str, config.include, config.exclude,
                       environ, ignore_modules)
       IN  /\ to_collection' = [tasks |-> done.tasks, collections |-> done.collections]
           /\ last' = [op |-> "magically_add_tasks",
                       from_module_or_str |-> from_module_or_str,
                       module |-> IF "str" \in DOMAIN from_module_or_str
                                  THEN import_module(from_module_or_str.str)
                                  ELSE from_module_or_str.module,
                       before |-> to_collection,
                       raised |-> done.raised]
    /\ calls' = calls + 1
    /\ UNCHANGED <<environ, ignore_modules, config, filesystem>>

Next == \E from_module_or_str \in ModuleArguments : MagicallyAddTasks(from_module_or_str)

Spec == Init /\ [][Next]_vars

----------------------------------------------------------------------------
(* What a collection holds *)

TopLevelTasks(collection) == {collection.tasks[i].v : i \in DOMAIN collection.tasks}

SubCollectionTasks(collection) ==
    UNION { TopLevelTasks(collection.collections[i].v) : i \in DOMAIN collection.collections }

RegisteredTasks(collection) == TopLevelTasks(collection) \cup SubCollectionTasks(collection)

TasksOf(id) == {Modules[id].tasks[i] : i \in DOMAIN Modules[id].tasks}

ModuleFlag(id) == Call(Modules[id].should_display_tasks, environ)

AfterCall == last.op = "magically_add_tasks"
Returned == AfterCall /\ last.raised = "none"

----------------------------------------------------------------------------
(* C1: name collision never loses a task.  After magically_add_tasks returns, every
   task the target collection held before is still registered under the same name,
   and a visible, unfiltered task of a non-prefixed module whose name (as invoke
   registers it, with dashes) was already the name of another task is registered
   under "<name>-<module name>" while the earlier task keeps the plain name. *)
C1_CollisionKeepsBothTasks ==
    Returned =>
        /\ \A i \in DOMAIN last.before.tasks :
              /\ Has(to_collection.tasks, last.before.tasks[i].k)
              /\ Get(to_collection.tasks, last.before.tasks[i].k) = last.before.tasks[i].v
        /\ ~Modules[last.module].SHOULD_PREFIX =>
              \A t \in TasksOf(last.module) :
                  LET plain == transform(t.name)
                      suffixed == transform(t.name \o <<"-">> \o slugify(Modules[last.module].name))
                  IN  ( /\ display_task(t, ModuleFlag(last.module), environ)
                        /\ should_add(t, config.include, config.exclude, <<>>)
                        /\ Has(last.before.tasks, plain)
                        /\ Get(last.before.tasks, plain) # t )
                      => /\ Has(to_collection.tasks, suffixed)
                         /\ Get(to_collection.tasks, suffixed) = t

(* C2: module-level visibility.  For a module without SHOULD_PREFIX, no regular task
   of the module is registered when its should_display_tasks() returns False; when
   it returns True, or the module defines none, a call that returns has registered
   every regular task of the module that the include/exclude filters let through
   (all of them when no filter is given). *)
C2_ModuleVisibility ==
    (AfterCall /\ ~Modules[last.module].SHOULD_PREFIX) =>
        \A t \in TasksOf(last.module) :
            t.klass = "Task" =>
                IF Call(Modules[last.module].should_display_tasks, environ)
                THEN ( /\ last.raised = "none"
                       /\ should_add(t, config.include, config.exclude, <<>>) )
                     => t \in TopLevelTasks(to_collection)
                ELSE t \notin RegisteredTasks(to_collection)

\* A hidden module was added to a collection that already held tasks, without
\* filters, and a visible one before it.
C2_Witness ==
    /\ AfterCall
    /\ last.module = "conditional"
    /\ "DISPLAY" \notin environ
    /\ config.include = <<>> /\ config.exclude = <<>>
    /\ last.raised = "none"
    /\ TopLevelTasks(to_collection) = TasksOf("not_prefixed")

\* The prefix of the module the last call was given, and what the filters say of
\* one of its tasks.
PrefixOf(id) == IF Modules[id].SHOULD_PREFIX THEN LastDotted(Modules[id].name) ELSE <<>>
PassesFilters(t, id) == should_add(t, config.include, config.exclude, PrefixOf(id))

(* C3: task-specific configuration has precedence over the module.  After a call
   that returns, a MagicTask of the module is registered iff its own
   should_display() returns True (and the filters let it through), whatever the
   module's should_display_tasks() returns, and a regular task of the module is
   registered iff the module's should_display_tasks() returns True (and the filters
   let it through). *)
C3_TaskConfigurationHasPrecedence ==
    Returned =>
        \A t \in TasksOf(last.module) :
            IF t.klass = "MagicTask"
            THEN t \in RegisteredTasks(to_collection)
                    <=> (Call(t.should_display, environ) /\ PassesFilters(t, last.module))
            ELSE t \in RegisteredTasks(to_collection)
                    <=> (ModuleFlag(last.module) /\ PassesFilters(t, last.module))

\* The same call with the module given the other way: by name instead of as a
\* module object, or as a module object instead of by name.
OtherForm(from_module_or_str) ==
    IF "str" \in DOMAIN from_module_or_str
    THEN [module |-> import_module(from_module_or_str.str)]
    ELSE [str |-> Modules[from_module_or_str.module].name]

SameResultEitherWay ==
    LET other == magically_add_tasks(
                     [tasks |-> last.before.tasks,
                      collections |-> last.before.collections, raised |-> "none"],
                     OtherForm(last.from_module_or_str), config.include, config.exclude,
                     environ, ignore_modules)
    IN  /\ other.tasks = to_collection.tasks
        /\ other.collections = to_collection.collections
        /\ other.raised = last.raised

VisibleTask(t, id) == display_task(t, ModuleFlag(id), environ)

\* Every visible task of the module the filters let through is in the
\* sub-collection of that name, and no task of the module is at the top level.
PrefixedUnder(name) ==
    /\ Has(to_collection.collections, name)
    /\ \A t \in TasksOf(last.module) :
          (VisibleTask(t, last.module) /\ PassesFilters(t, last.module))
              => t \in TopLevelTasks(Get(to_collection.collections, name))
    /\ TasksOf(last.module) \cap TopLevelTasks(to_collection) = {}

(* C4 as stated: for a module with SHOULD_PREFIX = True a call that returns has
   registered every visible task of the module (that the filters let through) in
   the sub-collection named after the last dotted component of the module name and
   none of them at the top level, and the result is the same for the module object
   and for its dotted name. *)
C4_PrefixedUnderLastComponent ==
    (Returned /\ Modules[last.module].SHOULD_PREFIX) =>
        /\ PrefixedUnder(transform(PrefixOf(last.module)))
        /\ SameResultEitherWay

(* C4 amended: ... in the sub-collection named after the last dotted component of
   the module name, or, when the target collection already has a task of that name,
   in the sub-collection named "<prefix>_<module name with its dots as
   underscores>" (registered with dashes); none of them at the top level; the same
   result, or the same exception, for the module object and for its dotted name. *)
C4_PrefixedUnderPrefixOrFallback ==
    /\ (Returned /\ Modules[last.module].SHOULD_PREFIX) =>
          IF Has(last.before.tasks, transform(PrefixOf(last.module)))
          THEN PrefixedUnder(transform(PrefixOf(last.module) \o <<"_">>
                                          \o slugify(Modules[last.module].name)))
          ELSE PrefixedUnder(transform(PrefixOf(last.module)))
    /\ (AfterCall /\ Modules[last.module].SHOULD_PREFIX) => SameResultEitherWay

\* The git spells were added by dotted name, inside a git repository, to a
\* collection that held other tasks, and are registered as git.update-all and
\* git.tidy-up.
C4_Witness ==
    /\ Returned
    /\ last.from_module_or_str = [str |-> <<"conjuring", ".", "spells", ".", "git">>]
    /\ "is_git_repo" \in environ
    /\ last.before.tasks # <<>>
    /\ task_names(to_collection) =
          [i \in DOMAIN last.before.tasks |-> last.before.tasks[i].k]
          \o << <<"git", ".", "update", "-", "all">>, <<"git", ".", "tidy", "-", "up">> >>

----------------------------------------------------------------------------
(* add_single_task_to on its own *)

\* The tasks, prefixes and explicit task names add_single_task_to is called with.
SingleTasks == TasksOf("not_prefixed") \cup TasksOf("blanket") \cup TasksOf("git")
                   \cup TasksOf("tasks")
SinglePrefixes == { <<>>, <<"git">> }
SingleTaskNames(task) == { <<>>, task.name \o <<"-">> \o slugify(Modules[task.module].name) }

InitSingle ==
    /\ environ = {}
    /\ ignore_modules = << <<>> >>
    /\ config \in FilterConfigs
    /\ to_collection = [tasks |-> <<>>, collections |-> <<>>]
    /\ filesystem = [cwd |-> "home", files |-> {}]
    /\ calls = 0
    /\ last = [op |-> "none"]

\* add_single_task_to(collection, task, include, exclude, prefix=, task_name=)
AddSingleTaskTo(task, prefix, task_name) ==
    /\ calls < MaxCalls
    /\ LET done == add_single_task_to(
                       [tasks |-> to_collection.tasks,
                        collections |-> to_collection.collections,
                        raised |-> "none"],
                       task, config.include, config.exclude, prefix, task_name)
       IN  /\ to_collection' = [tasks |-> done.tasks, collections |-> done.collections]
           /\ last' = [op |-> "add_single_task_to",
                       task |-> task, prefix |-> prefix, task_name |-> task_name,
                       before |-> to_collection,
                       raised |-> done.raised,
                       returned |-> should_add(task, config.include, config.exclude, prefix)]
    /\ calls' = calls + 1
    /\ UNCHANGED <<environ, ignore_modules, config, filesystem>>

\* to_collection.add_collection(sub_collection, prefix), as magically_add_tasks
\* does between calls of add_single_task_to.
AddCollection(prefix) ==
    /\ calls < MaxCalls
    /\ LET done == add_collection(
                       [tasks |-> to_collection.tasks,
                        collections |-> to_collection.collections,
                        raised |-> "none"],
                       Collection, prefix)
       IN  /\ to_collection' = [tasks |-> done.tasks, collections |-> done.collections]
           /\ last' = [op |-> "add_collection", prefix |-> prefix,
                       before |-> to_collection, raised |-> done.raised]
    /\ calls' = calls + 1
    /\ UNCHANGED <<environ, ignore_modules, config, filesystem>>

NextSingle ==
    \/ \E task \in SingleTasks, prefix \in SinglePrefixes :
          \E task_name \in SingleTaskNames(task) : AddSingleTaskTo(task, prefix, task_name)
    \/ \E prefix \in SinglePrefixes \ {<<>>} : AddCollection(prefix)

SpecSingle == InitSingle /\ [][NextSingle]_vars

\* The name the claim gives a task: "<prefix>.<name with dashes>".
NameWithDashes(name) ==
    [i \in 1..Len(name) |-> IF name[i] \in {"_", "."} THEN "-" ELSE name[i]]
GuessedName(prefix, name) ==
    IF prefix = <<>> THEN NameWithDashes(name) ELSE prefix \o <<".">> \o NameWithDashes(name)
MatchesOneOf(name, globs) == \E i \in DOMAIN globs : fnmatch(name, globs[i])

(* C6: include/exclude filtering.  A call of add_single_task_to that returns has
   returned True iff (include is empty or the guessed name "<prefix>.<name with
   dashes>" matches an include glob) and not (exclude is non-empty and the guessed
   name matches an exclude glob); when it returned True the task is registered under
   the given task name, or its own, and when it returned False the collection is as
   it was. *)
C6_IncludeExcludeFiltering ==
    (last.op = "add_single_task_to" /\ last.raised = "none") =>
        LET guessed == GuessedName(last.prefix, last.task.name)
            included == config.include = <<>> \/ MatchesOneOf(guessed, config.include)
            excluded == config.exclude # <<>> /\ MatchesOneOf(guessed, config.exclude)
            key == transform(IF last.task_name = <<>> THEN last.task.name ELSE last.task_name)
        IN  /\ last.returned <=> (included /\ ~excluded)
            /\ last.returned =>
                  /\ Has(to_collection.tasks, key)
                  /\ Get(to_collection.tasks, key) = last.task
            /\ ~last.returned => to_collection = last.before

\* task_d matches the include glob task* and the exclude glob *-d: it was not
\* added, while task_c was.
C6_Witness ==
    /\ last.op = "add_single_task_to"
    /\ config.include # <<>> /\ config.exclude # <<>>
    /\ last.task.name = <<"task", "_", "d">>
    /\ ~last.returned
    /\ \E i \in DOMAIN to_collection.tasks : to_collection.tasks[i].k = <<"task", "-", "c">>

----------------------------------------------------------------------------
(* collection_from_python_files *)

\* Path(__file__).stat().st_ino of grimoire.py; no file of the searched
\* directories is grimoire.py itself.
current_inode == "grimoire.py"

File(dir, stem, module) == [dir |-> dir, stem |-> stem, module |-> module, st_ino |-> module]

\* The Python files a project directory and the home directory may hold.
ProjectFiles ==
    { File("project", <<"tasks">>, "tasks"),
      File("project", <<"glob", "_", "more">>, "glob_more") }
HomeFiles ==
    { File("home", <<"tasks">>, "home_tasks"),
      File("home", <<"glob", "_", "tasks">>, "glob_tasks") }
\* With the home directory as the current directory there is one directory.
OnlyHomeFiles == HomeFiles \cup { File("home", <<"glob", "_", "more">>, "glob_more") }

FileSystems ==
    {[cwd |-> "project", files |-> fs] : fs \in SUBSET (ProjectFiles \cup HomeFiles)}
    \cup {[cwd |-> "home", files |-> fs] : fs \in SUBSET OnlyHomeFiles}

Stems == {f.stem : f \in ProjectFiles \cup OnlyHomeFiles}

Permutations_(S) ==
    {p \in [1..Cardinality(S) -> S] : \A e \in S : \E i \in DOMAIN p : p[i] = e}

\* The glob patterns of the calls: those of Spellbook with glob*.py for
\* conjuring*.py, one pattern, and two patterns that both match tasks.py.
PatternSets ==
    { { <<"tasks", ".", "py">>, <<"glob", "*", ".", "py">> },
      { <<"glob", "*", ".", "py">> },
      { <<"tasks", ".", "py">>, <<"*", "tasks", ".", "py">> } }

\* which_dir.glob(pattern): the files of the directory whose name matches, in the
\* order the directory lists them.
glob(which_dir, pattern, fs, listing) ==
    LET Matches(stem) ==
            \E f \in fs.files :
                f.dir = which_dir /\ f.stem = stem /\ fnmatch(stem \o <<".", "py">>, pattern)
        found == SelectSeq(listing, Matches)
    IN  [i \in DOMAIN found |->
            CHOOSE f \in fs.files : f.dir = which_dir /\ f.stem = found[i]]

\* magically_add_tasks(main_colllection, file.stem): import_module(file.stem) gives
\* the module already imported under that name, if any, else the file found first
\* on sys.path, which is the file of which_dir.  w is [collection, sys_modules].
add_file(w, file, a) ==
    IF w.collection.raised # "none" \/ file.st_ino = current_inode THEN w
    ELSE LET cached == {m \in w.sys_modules : Modules[m].name = file.stem}
             module == IF cached # {} THEN CHOOSE m \in cached : TRUE ELSE file.module
         IN  [collection |-> magically_add_tasks(w.collection, [module |-> module],
                                                 a.include, a.exclude, a.env, a.ignored),
              sys_modules |-> w.sys_modules \cup {module}]

RECURSIVE add_files(_, _, _)
add_files(w, files, a) ==
    IF files = <<>> THEN w ELSE add_files(add_file(w, Head(files), a), Tail(files), a)

RECURSIVE add_patterns(_, _, _, _)
add_patterns(w, which_dir, patterns, a) ==
    IF patterns = <<>> THEN w
    ELSE add_patterns(add_files(w, glob(which_dir, Head(patterns), a.fs, a.listing), a),
                      which_dir, Tail(patterns), a)

RECURSIVE add_dirs(_, _, _)
add_dirs(w, dirs, a) ==
    IF dirs = <<>> THEN w
    ELSE add_dirs(add_patterns(w, Head(dirs), a.unique_patterns, a), Tail(dirs), a)

\* collection_from_python_files(current_module, *py_glob_patterns, include=,
\* exclude=).  The sets search_dirs and unique_patterns are iterated in the orders
\* a.search_dirs and a.unique_patterns, the directories are listed in the order
\* a.listing.
collection_from_python_files(current_module, a) ==
    LET main_colllection == Collection
        globbed == add_dirs([collection |-> main_colllection, sys_modules |-> {current_module}],
                            a.search_dirs, a)
    IN  magically_add_tasks(globbed.collection, [module |-> current_module],
                            a.include, a.exclude, a.env, a.ignored)

InitGlob ==
    /\ environ \in {{}, {"DISPLAY", "is_git_repo"}}
    /\ ignore_modules = << <<>> >>
    /\ config \in {c \in FilterConfigs : c.include = <<>>}
    /\ to_collection = [tasks |-> <<>>, collections |-> <<>>]
    /\ filesystem \in FileSystems
    /\ calls = 0
    /\ last = [op |-> "none"]

\* namespace = collection_from_python_files(current_module, *patterns, ...)
CollectionFromPythonFiles(current_module, py_glob_patterns) ==
    /\ calls = 0
    /\ \E search_dirs \in Permutations_({filesystem.cwd, "home"}),
          unique_patterns \in Permutations_(py_glob_patterns),
          listing \in Permutations_(Stems) :
          LET done == collection_from_python_files(
                          current_module,
                          [search_dirs |-> search_dirs, unique_patterns |-> unique_patterns,
                           listing |-> listing, fs |-> filesystem,
                           include |-> config.include, exclude |-> config.exclude,
                           env |-> environ, ignored |-> ignore_modules])
          IN  /\ to_collection' = [tasks |-> done.tasks, collections |-> done.collections]
              /\ last' = [op |-> "collection_from_python_files",
                          current_module |-> current_module,
                          py_glob_patterns |-> py_glob_patterns,
                          raised |-> done.raised]
    /\ calls' = 1
    /\ UNCHANGED <<environ, ignore_modules, config, filesystem>>

NextGlob ==
    \E current_module \in {"root", "blanket"}, py_glob_patterns \in PatternSets :
        CollectionFromPythonFiles(current_module, py_glob_patterns)

SpecGlob == InitGlob /\ [][NextGlob]_vars

AfterGlob == last.op = "collection_from_python_files" /\ last.raised = "none"

\* The files of the current and the home directory one of the patterns matches.
MatchingFiles ==
    {f \in filesystem.files :
        \E pattern \in last.py_glob_patterns : fnmatch(f.stem \o <<".", "py">>, pattern)}

\* The tasks of a module that are visible and that the filters let through.
WantedTasksOf(id) ==
    {t \in TasksOf(id) : VisibleTask(t, id) /\ PassesFilters(t, id)}

\* Under how many names a task is registered.
Occurrences(t, collection) ==
    Cardinality({i \in DOMAIN collection.tasks : collection.tasks[i].v = t})
    + Cardinality({ <<i, j>> \in (DOMAIN collection.collections) \X (1..4) :
                       /\ j \in DOMAIN collection.collections[i].v.tasks
                       /\ collection.collections[i].v.tasks[j].v = t })

(* C5: glob discovery.  The collection collection_from_python_files returns holds
   the visible tasks (that the filters let through) of every Python file of the
   current or the home directory that matches one of the patterns, and those of
   current_module, and no other task. *)
C5_GlobDiscovery ==
    AfterGlob =>
        RegisteredTasks(to_collection) =
            UNION {WantedTasksOf(f.module) : f \in MatchingFiles}
                \cup WantedTasksOf(last.current_module)

(* C7: if the current directory is the home directory tasks are not duplicated:
   every visible task (that the filters let through) of a matching file is
   registered exactly once in the collection returned. *)
C7_NoDuplicatesInHome ==
    (AfterGlob /\ filesystem.cwd = "home") =>
        \A f \in MatchingFiles :
            \A t \in WantedTasksOf(f.module) : Occurrences(t, to_collection) = 1

----------------------------------------------------------------------------
(* conjuring init: conjuring.cli *)

(* A YAML document is a node: null, a string or a mapping (a dict of nodes).  A
   text (the bootstrap file, the output of diff) is a sequence of words.  In the
   runs of the command filesystem is [invoke_yaml, conjuring_init_py]: the
   files at ROOT_INVOKE_YAML and at CONJURING_INIT_PY_PATH. *)

KEY_TASKS == "tasks"
KEY_COLLECTION_NAME == "collection_name"
CONJURING_INIT == "conjuring_init"

None == [kind |-> "null"]
Scalar(s) == [kind |-> "str", s |-> s]
Mapping(items) == [kind |-> "map", items |-> items]
Item(key, val) == [k |-> key, v |-> val]

\* yaml.load(config_file): the document of the file.
load(config_file) == config_file.data

\* yaml.dump(data, config_file): the file holds the document, laid out with the
\* indentation the YAML object has at the time.
dump(data, indent) == [exists |-> TRUE, data |-> data, indent |-> indent]

\* data.setdefault(key, default) on a mapping.
setdefault(data, key, default) ==
    IF Has(data.items, key) THEN data ELSE Mapping(Append(data.items, Item(key, default)))

\* mapping.get(key, default); a node that is no mapping has no get.
HasGet(node) == node.kind = "map"
get(node, key, default) ==
    IF Has(node.items, key) THEN Get(node.items, key) ELSE default

\* patch_invoke_yaml(config_file): [file, returned, raised]; returned is
\* meaningful when raised = "none".
patch_invoke_yaml(config_file) ==
    IF ~config_file.exists
    THEN LET data == Mapping(<< Item(KEY_TASKS,
                              Mapping(<< Item(KEY_COLLECTION_NAME, Scalar(CONJURING_INIT)) >>)) >>)
         IN  [file |-> dump(data, "default"), returned |-> TRUE, raised |-> "none"]
    ELSE LET data == load(config_file)
             failed == [file |-> config_file, returned |-> FALSE, raised |-> "AttributeError"]
         IN  IF ~HasGet(data) THEN failed
             ELSE LET tasks_ == get(data, KEY_TASKS, Mapping(<<>>))
                  IN  IF ~HasGet(tasks_) THEN failed
                      ELSE LET current_collection_name == get(tasks_, KEY_COLLECTION_NAME, None)
                               patched ==
                                   IF tasks_.items # <<>>
                                   THEN Mapping(Put(data.items, KEY_TASKS,
                                            Mapping(Put(tasks_.items, KEY_COLLECTION_NAME,
                                                        Scalar(CONJURING_INIT)))))
                                   ELSE setdefault(data, KEY_TASKS,
                                            Mapping(<< Item(KEY_COLLECTION_NAME,
                                                            Scalar(CONJURING_INIT)) >>))
                           IN  IF current_collection_name = Scalar(CONJURING_INIT)
                               THEN [file |-> config_file, returned |-> FALSE, raised |-> "none"]
                               ELSE [file |-> dump(patched, "mapping=2, sequence=4, offset=2"),
                                     returned |-> TRUE, raised |-> "none"]

\* The spells of CONJURING_SPELLS_DIR the runs choose from, in the order
\* Python's sorted() gives their names.
SpellNames == <<"aws", "git", "py">>
Rank(spell) == CHOOSE i \in DOMAIN SpellNames : SpellNames[i] = spell

\* sorted(...) leaving the lines in the order chosen.
sorted_as_chosen(chosen) == chosen

\* sorted(...) of the lines '    "<spell>*",': the order of the spell names.
RECURSIVE sorted(_)
sorted(chosen) ==
    IF chosen = <<>> THEN <<>>
    ELSE LET rest == sorted(Tail(chosen))
             Before(x) == Rank(x) < Rank(Head(chosen))
             NotBefore(x) == ~Before(x)
         IN  SelectSeq(rest, Before) \o <<Head(chosen)>> \o SelectSeq(rest, NotBefore)

\* One quoted line per element: '    "<dir>",' or '    "<spell>*",'.
RECURSIVE lines(_, _)
lines(elements, suffix) ==
    IF elements = <<>> THEN <<>>
    ELSE <<"\"", Head(elements)>> \o suffix \o <<"\",">> \o lines(Tail(elements), suffix)

\* template.substitute(import_dirs=, function=, args=)
substitute(import_dirs_call, function, args) ==
    <<"from conjuring import Spellbook", "namespace = Spellbook()">>
        \o import_dirs_call \o <<".", function, "(">> \o args \o <<")">>

\* diff -u path temp_file (piped through diff-so-fancy when it is installed):
\* nothing when the two texts are equal, else both texts under a header.
diff(old, new) ==
    IF old = new THEN <<>>
    ELSE <<"---", "+++", "@@">> \o old \o new

\* The end of generate_conjuring_init, from "if path.exists() and not force",
\* with the test of force left out.
diff_or_write_without_force(path, contents, force) ==
    [file |-> [exists |-> TRUE, text |-> contents], returned |-> contents, raised |-> "none"]

\* The end of generate_conjuring_init, from "if path.exists() and not force".
diff_or_write(path, contents, force) ==
    IF path.exists /\ ~force
    THEN [file |-> path, returned |-> diff(path.text, contents), raised |-> "none"]
    ELSE [file |-> [exists |-> TRUE, text |-> contents], returned |-> contents,
          raised |-> "none"]

\* generate_conjuring_init without "if not chosen: raise typer.Abort".
generate_conjuring_init_without_abort(path, mode, import_dirs, spells, force, iterfzf) ==
    LET import_dirs_call ==
            IF import_dirs # <<>>
            THEN <<".import_dirs(">> \o lines(import_dirs, <<>>) \o <<")">>
            ELSE <<>>
        prompt == mode \in {"opt-in", "opt-out"}
        function_name ==
            CASE mode = "opt-in" -> "conjure_only"
              [] mode = "opt-out" -> "conjure_all_except"
              [] OTHER -> "conjure_imported_only"
        chosen == IF spells = <<>> /\ prompt THEN iterfzf ELSE spells
        with_stars == lines(sorted(chosen), <<"*">>)
        contents ==
            IF mode = "all"
            THEN substitute(import_dirs_call, "conjure_all", <<>>)
            ELSE substitute(import_dirs_call, function_name, with_stars)
        done == diff_or_write(path, contents, force)
    IN  [file |-> done.file, returned |-> done.returned, raised |-> "none",
         contents |-> contents]

\* generate_conjuring_init(path, mode, import_dirs, spells, force); iterfzf is
\* what the interactive selection returns.  [file, returned, raised, contents].
generate_conjuring_init(path, mode, import_dirs, spells, force, iterfzf) ==
    LET import_dirs_call ==
            IF import_dirs # <<>>
            THEN <<".import_dirs(">> \o lines(import_dirs, <<>>) \o <<")">>
            ELSE <<>>
        prompt == mode \in {"opt-in", "opt-out"}
        function_name ==
            CASE mode = "opt-in" -> "conjure_only"
              [] mode = "opt-out" -> "conjure_all_except"
              [] OTHER -> "conjure_imported_only"
        chosen == IF spells = <<>> /\ prompt THEN iterfzf ELSE spells
        with_stars == lines(sorted(chosen), <<"*">>)
        contents ==
            IF mode = "all"
            THEN substitute(import_dirs_call, "conjure_all", <<>>)
            ELSE substitute(import_dirs_call, function_name, with_stars)
    IN  IF mode # "all" /\ chosen = <<>>
        THEN [file |-> path, returned |-> <<>>, raised |-> "typer.Abort", contents |-> <<>>]
        ELSE LET done == diff_or_write(path, contents, force)
             IN  [file |-> done.file, returned |-> done.returned, raised |-> "none",
                  contents |-> contents]

\* Another section of invoke.yaml, and another key of its tasks section.
RunSection == Item("run", Mapping(<< Item("echo", Scalar("true")) >>))
AutoDashNames == Item("auto_dash_names", Scalar("false"))

\* The tasks sections an invoke.yaml may have: "tasks:" alone (null), "tasks: {}",
\* and mappings with or without a collection_name.
TasksSections ==
    { None,
      Mapping(<<>>),
      Mapping(<< AutoDashNames >>),
      Mapping(<< Item(KEY_COLLECTION_NAME, Scalar("tasks")) >>),
      Mapping(<< AutoDashNames, Item(KEY_COLLECTION_NAME, Scalar("tasks")) >>),
      Mapping(<< Item(KEY_COLLECTION_NAME, Scalar(CONJURING_INIT)) >>),
      Mapping(<< Item(KEY_COLLECTION_NAME, Scalar(CONJURING_INIT)), AutoDashNames >>) }

\* The documents of an existing invoke.yaml: an empty file (null), a file without
\* a tasks section, and files with one, alone or after another section.
InvokeYamlDocuments ==
    { None, Mapping(<< RunSection >>) }
        \cup { Mapping(<< Item(KEY_TASKS, t) >>) : t \in TasksSections }
        \cup { Mapping(<< RunSection, Item(KEY_TASKS, t) >>) :
                  t \in { Mapping(<< Item(KEY_COLLECTION_NAME, Scalar("tasks")) >>),
                          Mapping(<< Item(KEY_COLLECTION_NAME, Scalar(CONJURING_INIT)),
                                     AutoDashNames >>) } }

MissingYaml == [exists |-> FALSE, data |-> None, indent |-> "none"]
InvokeYamlFiles ==
    { MissingYaml }
        \cup { [exists |-> TRUE, data |-> d, indent |-> "as written"] : d \in InvokeYamlDocuments }

MissingPy == [exists |-> FALSE, text |-> <<>>]
ConjuringInitPyFiles ==
    { MissingPy,
      [exists |-> TRUE, text |-> <<>>],
      [exists |-> TRUE, text |-> substitute(<<>>, "conjure_all", <<>>)] }

SpellModes == {"opt-in", "opt-out", "all", "imported"}
ImportDirs == { <<>>, <<"~/work", "~/spells">> }
SpellLists == { <<>>, <<"py", "aws">> }
FzfChoices == { <<>>, <<"git", "aws">> }

InitCli ==
    /\ environ = {}
    /\ ignore_modules = << <<>> >>
    /\ config = [include |-> <<>>, exclude |-> <<>>]
    /\ to_collection = [tasks |-> <<>>, collections |-> <<>>]
    /\ filesystem \in [invoke_yaml : InvokeYamlFiles, conjuring_init_py : ConjuringInitPyFiles]
    /\ calls = 0
    /\ last = [op |-> "none"]

\* patch_invoke_yaml(ROOT_INVOKE_YAML)
PatchInvokeYaml ==
    /\ calls < MaxCalls
    /\ LET done == patch_invoke_yaml(filesystem.invoke_yaml)
       IN  /\ filesystem' = [filesystem EXCEPT !.invoke_yaml = done.file]
           /\ last' = [op |-> "patch_invoke_yaml", before |-> filesystem.invoke_yaml,
                       returned |-> done.returned, raised |-> done.raised]
    /\ calls' = calls + 1
    /\ UNCHANGED <<environ, ignore_modules, config, to_collection>>

\* generate_conjuring_init(CONJURING_INIT_PY_PATH, mode, import_dirs, spells, force)
GenerateConjuringInit(mode, import_dirs, spells, force, iterfzf) ==
    /\ calls < MaxCalls
    /\ LET done == generate_conjuring_init(filesystem.conjuring_init_py, mode, import_dirs,
                                           spells, force, iterfzf)
       IN  /\ filesystem' = [filesystem EXCEPT !.conjuring_init_py = done.file]
           /\ last' = [op |-> "generate_conjuring_init",
                       before |-> filesystem.conjuring_init_py,
                       mode |-> mode, import_dirs |-> import_dirs, spells |-> spells,
                       force |-> force, iterfzf |-> iterfzf,
                       contents |-> done.contents,
                       returned |-> done.returned, raised |-> done.raised]
    /\ calls' = calls + 1
    /\ UNCHANGED <<environ, ignore_modules, config, to_collection>>

\* conjuring init --mode ... --dir ... --spells ... [--force]: patch_invoke_yaml,
\* then generate_conjuring_init, whose output is echoed.
InitCommand(mode, dir_, spells, force, iterfzf) ==
    /\ calls < MaxCalls
    /\ LET patched == patch_invoke_yaml(filesystem.invoke_yaml)
           output == generate_conjuring_init(filesystem.conjuring_init_py, mode, dir_,
                                             spells, force, iterfzf)
       IN  IF patched.raised # "none"
           THEN /\ filesystem' = filesystem
                /\ last' = [op |-> "init", force |-> force,
                            echoed |-> <<>>, raised |-> patched.raised]
           ELSE /\ filesystem' = [invoke_yaml |-> patched.file,
                                  conjuring_init_py |-> output.file]
                /\ last' = [op |-> "init", force |-> force,
                            echoed |-> output.returned, raised |-> output.raised]
    /\ calls' = calls + 1
    /\ UNCHANGED <<environ, ignore_modules, config, to_collection>>

\* What iterfzf may return: it is called when no spells were passed and the mode
\* has a prompt.
Selections(mode, spells) ==
    IF spells = <<>> /\ mode \in {"opt-in", "opt-out"} THEN FzfChoices ELSE { <<>> }

NextCli ==
    \/ PatchInvokeYaml
    \/ \E mode \in SpellModes, import_dirs \in ImportDirs, spells \in SpellLists,
          force \in BOOLEAN :
          \E iterfzf \in Selections(mode, spells) :
              GenerateConjuringInit(mode, import_dirs, spells, force, iterfzf)
    \/ \E mode \in SpellModes, dir_ \in ImportDirs, spells \in SpellLists,
          force \in BOOLEAN :
          \E iterfzf \in Selections(mode, spells) :
              InitCommand(mode, dir_, spells, force, iterfzf)

SpecCli == InitCli /\ [][NextCli]_vars

AfterPatch == last.op = "patch_invoke_yaml"

\* The file exists and its tasks.collection_name is 'conjuring_init'.
Configured(file) ==
    /\ file.exists
    /\ file.data.kind = "map"
    /\ Has(file.data.items, KEY_TASKS)
    /\ Get(file.data.items, KEY_TASKS).kind = "map"
    /\ Has(Get(file.data.items, KEY_TASKS).items, KEY_COLLECTION_NAME)
    /\ Get(Get(file.data.items, KEY_TASKS).items, KEY_COLLECTION_NAME) = Scalar(CONJURING_INIT)

\* The items of a mapping node, none for another node.
ItemsOf(node) == IF node.kind = "map" THEN {node.items[i] : i \in DOMAIN node.items} ELSE {}
SectionOf(file, key) ==
    IF file.data.kind = "map" /\ Has(file.data.items, key)
    THEN Get(file.data.items, key) ELSE None

\* Every key of the file before, but tasks and tasks.collection_name, is in the
\* file after with the value it had.
OtherKeysPreserved(before, after) ==
    before.exists =>
        /\ \A item \in ItemsOf(before.data) :
               item.k # KEY_TASKS => item \in ItemsOf(after.data)
        /\ \A item \in ItemsOf(SectionOf(before, KEY_TASKS)) :
               item.k # KEY_COLLECTION_NAME => item \in ItemsOf(SectionOf(after, KEY_TASKS))

(* C8: patch_invoke_yaml on a config file that is not already configured (missing,
   without a tasks section, with a tasks section that has another or no
   collection_name) returns True and leaves a file that exists, has
   tasks.collection_name = 'conjuring_init' and keeps every other key. *)
C8_PatchConfiguresTheFile ==
    (AfterPatch /\ ~Configured(last.before)) =>
        /\ last.raised = "none"
        /\ last.returned = TRUE
        /\ Configured(filesystem.invoke_yaml)
        /\ OtherKeysPreserved(last.before, filesystem.invoke_yaml)

\* patch_invoke_yaml on a configured file returns False and leaves the file as it was.
ConfiguredFileUnchanged ==
    (AfterPatch /\ Configured(last.before)) =>
        /\ last.raised = "none"
        /\ last.returned = FALSE
        /\ filesystem.invoke_yaml = last.before

\* A call of patch_invoke_yaml right after one that returned True returns False
\* and changes nothing.
SecondPatchChangesNothing ==
    (/\ AfterPatch /\ last.raised = "none" /\ last.returned = TRUE
     /\ calls' = calls + 1 /\ last'.op = "patch_invoke_yaml") =>
        /\ last'.raised = "none"
        /\ last'.returned = FALSE
        /\ filesystem' = filesystem

(* C9: patch_invoke_yaml on a file whose tasks.collection_name is already
   'conjuring_init' returns False and leaves the file unchanged, and a second call
   after a call that patched the file (returned True) returns False and changes
   nothing. *)
C9_PatchIsIdempotent ==
    [] ConfiguredFileUnchanged /\ [][SecondPatchChangesNothing]_vars

AfterGenerate == last.op = "generate_conjuring_init"

(* C10: generate_conjuring_init never overwrites an existing file unless force is
   True.  When the path exists and force is False the file stays as it was, and a
   call that returns gives the empty string if the generated content equals the
   file's and a non-empty diff otherwise; when the path does not exist or force
   is True, a call that returns has written the generated content and returns
   it. *)
C10_NoOverwriteWithoutForce ==
    AfterGenerate =>
        /\ (last.before.exists /\ ~last.force) =>
               /\ filesystem.conjuring_init_py = last.before
               /\ last.raised = "none" =>
                      IF last.contents = last.before.text
                      THEN last.returned = <<>>
                      ELSE last.returned # <<>> /\ last.returned # last.contents
        /\ (last.raised = "none" /\ (~last.before.exists \/ last.force)) =>
               /\ filesystem.conjuring_init_py = [exists |-> TRUE, text |-> last.contents]
               /\ last.returned = last.contents

\* An existing file with another content, no force: the file is kept and the
\* diff returned.
C10_Witness ==
    /\ AfterGenerate
    /\ last.raised = "none"
    /\ last.before.exists /\ ~last.force
    /\ last.before.text # last.contents
    /\ last.before.text # <<>>
    /\ last.returned # <<>>
    /\ filesystem.conjuring_init_py = last.before

(* C11: generate_conjuring_init quits when nothing is chosen.  For every mode but
   ALL, when no spells are passed and the interactive selection yields nothing
   or the mode has no prompt (IMPORTED), the call raises typer.Abort and the init
   file is neither created nor modified. *)
C11_AbortsWhenNothingChosen ==
    (/\ AfterGenerate
     /\ last.mode # "all"
     /\ last.spells = <<>>
     /\ (last.iterfzf = <<>> \/ last.mode = "imported")) =>
        /\ last.raised = "typer.Abort"
        /\ filesystem.conjuring_init_py = last.before

\* Nothing chosen at the prompt of opt-in, no file yet: Abort, still no file.
C11_Witness ==
    /\ AfterGenerate
    /\ last.mode = "opt-in" /\ last.spells = <<>> /\ last.iterfzf = <<>>
    /\ last.raised = "typer.Abort"
    /\ ~last.before.exists
    /\ ~filesystem.conjuring_init_py.exists

\* The spells the content is generated from: those passed, else those selected.
ChosenSpells == IF last.spells # <<>> THEN last.spells ELSE last.iterfzf

Count(seq, e) == Cardinality({i \in DOMAIN seq : seq[i] = e})
\* args holds the elements of chosen, each as often, in ascending order.
AscendingCopy(args, chosen) ==
    /\ Len(args) = Len(chosen)
    /\ \A i \in DOMAIN SpellNames : Count(args, SpellNames[i]) = Count(chosen, SpellNames[i])
    /\ \A i, j \in DOMAIN args : i < j => Rank(args[i]) <= Rank(args[j])

\* The words of the function call a mode emits: ".", name, "(", a quoted glob
\* per spell, ")".
FunctionCall(mode, args) ==
    LET name == CASE mode = "all" -> "conjure_all"
                  [] mode = "opt-in" -> "conjure_only"
                  [] mode = "opt-out" -> "conjure_all_except"
                  [] mode = "imported" -> "conjure_imported_only"
    IN  <<".", name, "(">>
            \o [i \in 1..(4 * Len(args)) |->
                   CASE i % 4 = 1 -> "\""
                     [] i % 4 = 2 -> args[(i + 2) \div 4]
                     [] i % 4 = 3 -> "*"
                     [] i % 4 = 0 -> "\","]
            \o <<")">>

\* The words of the .import_dirs(...) call: nothing when no directory is given.
ImportDirsCall(dirs) ==
    IF dirs = <<>> THEN <<>>
    ELSE <<".import_dirs(">>
            \o [i \in 1..(3 * Len(dirs)) |->
                   CASE i % 3 = 1 -> "\""
                     [] i % 3 = 2 -> dirs[(i + 1) \div 3]
                     [] i % 3 = 0 -> "\","]
            \o <<")">>

(* C12: the content generate_conjuring_init generates.  After "Spellbook()" come
   the given import dirs, in the given order, as an .import_dirs(...) call, then
   the function call of the mode: conjure_all() without arguments, conjure_only,
   conjure_all_except or conjure_imported_only with every chosen spell as the
   quoted glob "<spell>*" in ascending order, whatever the order chosen. *)
C12_GeneratedContent ==
    (AfterGenerate /\ last.raised = "none") =>
        \E args \in UNION {[1..n -> {SpellNames[i] : i \in DOMAIN SpellNames}] : n \in 0..2} :
            /\ IF last.mode = "all" THEN args = <<>> ELSE AscendingCopy(args, ChosenSpells)
            /\ last.contents =
                   <<"from conjuring import Spellbook", "namespace = Spellbook()">>
                       \o ImportDirsCall(last.import_dirs)
                       \o FunctionCall(last.mode, args)

\* Spells chosen out of order, with import dirs: content generated.
C12_Witness ==
    /\ AfterGenerate /\ last.raised = "none"
    /\ last.mode = "opt-out"
    /\ last.import_dirs # <<>>
    /\ ChosenSpells = <<"py", "aws">>
    /\ filesystem.conjuring_init_py.exists
    /\ filesystem.conjuring_init_py.text = last.contents

----------------------------------------------------------------------------
(* git.import_repos: conjuring.spells.git *)

(* In the runs of import_repos filesystem is [target, source, temp]: the target
   directory ([kind, tags, remotes, dirs], kind one of "missing", "dir", "repo"),
   the source directory ([kind]) and the set of temporary paths that exist.  A
   tag is [name, dirs]: the directories of the target when it was made.  A run
   is [world, log, raised]: log holds the commands in the order c.run was given
   them, as [cmd, cwd, ran, ok]; ran is FALSE for a command a dry run only
   echoes. *)

IMPORT_REPOS_TAG_PREFIX == "before-import-repos"

\* The name of the source repository (src_path.name).
SourceName == "lib"

\* The commands of import_repos that c.run gives to the shell and that may exit
\* with a non-zero code.
GitCommands ==
    { "git branch -a", "git tag -a", "git clone --no-local", "git checkout",
      "git filter-repo", "git remote add", "git fetch", "git merge",
      "git remote remove", "git reset --hard", "git tag -d" }

\* What a command that succeeds changes.
Effect(world, cmd, arg) ==
    CASE cmd = "git tag -a" ->
             [world EXCEPT !.target.tags = @ \cup {[name |-> arg, dirs |-> world.target.dirs]}]
      [] cmd = "git clone --no-local" -> [world EXCEPT !.temp = @ \cup {"temp_clone"}]
      [] cmd = "git remote add" -> [world EXCEPT !.target.remotes = @ \cup {arg}]
      [] cmd = "git merge" -> [world EXCEPT !.target.dirs = @ \cup {arg}]
      [] cmd = "git remote remove" -> [world EXCEPT !.target.remotes = @ \ {arg}]
      [] cmd = "git reset --hard" -> [world EXCEPT !.target.dirs = arg.dirs]
      [] cmd = "git tag -d" -> [world EXCEPT !.target.tags = @ \ {arg}]
      [] cmd = "rm -rf" -> [world EXCEPT !.temp = {}]
      [] OTHER -> world

\* What makes a command fail whatever else happens: a remote or a tag that
\* already exists.
Refused(world, cmd, arg) ==
    \/ cmd = "git remote add" /\ arg \in world.target.remotes
    \/ cmd = "git tag -a" /\ \E t \in world.target.tags : t.name = arg

\* c.run(cmd) with the working directory c.cd gave: skipped once an exception is
\* on its way; echoed in a dry run; UnexpectedExit when the command fails.
run(r, cmd, cwd, arg, a) ==
    IF r.raised # "none" THEN r
    ELSE IF a.dry
    THEN [r EXCEPT !.log = Append(@, [cmd |-> cmd, cwd |-> cwd, ran |-> FALSE, ok |-> TRUE])]
    ELSE IF cmd = a.fails \/ Refused(r.world, cmd, arg)
    THEN [r EXCEPT !.log = Append(@, [cmd |-> cmd, cwd |-> cwd, ran |-> TRUE, ok |-> FALSE]),
                   !.raised = "UnexpectedExit"]
    ELSE [r EXCEPT !.log = Append(@, [cmd |-> cmd, cwd |-> cwd, ran |-> TRUE, ok |-> TRUE]),
                   !.world = Effect(r.world, cmd, arg)]

\* run_stdout / run_lines(..., dry=False): runs also in a dry run, never raises.
run_lines(r, cmd, cwd) ==
    IF r.raised # "none" THEN r
    ELSE [r EXCEPT !.log = Append(@, [cmd |-> cmd, cwd |-> cwd, ran |-> TRUE, ok |-> TRUE])]

\* vanish(message): prints the message and exits.
vanish(r) == IF r.raised # "none" THEN r ELSE [r EXCEPT !.raised = "SystemExit"]

\* ask_yes_no(message): returns when the user answers yes, exits otherwise.
ask_yes_no(r, a) ==
    IF r.raised # "none" THEN r
    ELSE IF a.answer = "y"
    THEN [r EXCEPT !.log = Append(@, [cmd |-> "ask_yes_no", cwd |-> "", ran |-> TRUE, ok |-> TRUE])]
    ELSE vanish([r EXCEPT !.log = Append(@, [cmd |-> "ask_yes_no", cwd |-> "", ran |-> TRUE,
                                              ok |-> FALSE])])

is_valid_git_repository(repo) == repo.kind = "repo"

\* _validate_git_repo accepting every path.
_validate_git_repo_accepting_all(r, repo) == r

_validate_git_repo(r, repo) ==
    IF repo.kind = "missing" THEN vanish(r)
    ELSE IF ~is_valid_git_repository(repo) THEN vanish(r)
    ELSE r

\* run_stdout(c, cmd): follows the dry setting of the context, never raises.
run_stdout(r, cmd, cwd, a) ==
    IF r.raised # "none" THEN r
    ELSE [r EXCEPT !.log = Append(@, [cmd |-> cmd, cwd |-> cwd, ran |-> ~a.dry, ok |-> TRUE])]

\* dirty(c, [repo_path]): git status and git stash list in the repository.
dirty(r, cwd) ==
    run_lines(run_lines(r, "git status --porcelain", cwd), "git stash list", cwd)

_validate_and_display_repo_status(r, cwd, show_branches, a) ==
    LET branch == run_stdout(r, "git branch --show-current", cwd, a)
        shown == IF show_branches THEN run(branch, "git branch -a", cwd, "", a) ELSE branch
    IN  dirty(shown, cwd)

\* _handle_rollback(c, target_path); a.pick is the tag chosen with fzf.
_handle_rollback(r, a) ==
    LET valid == _validate_git_repo(r, r.world.target)
        listed == run_lines(valid, "git tag -l", "target")
        chosen == IF listed.world.target.tags = {} \/ a.pick \notin listed.world.target.tags
                  THEN vanish(listed)
                  ELSE ask_yes_no(listed, a)
        reset == run(chosen, "git reset --hard", "target", a.pick, a)
        deleted == run(reset, "git tag -d", "target", a.pick, a)
    IN  run(deleted, "git tag", "target", "", a)

\* The body of the try block of _perform_repo_merge.
merge_steps(r, dir_, a) ==
    LET remote_name == <<"temp-import", dir_>>
        cloned == run(r, "git clone --no-local", "", "", a)
        checked == run(cloned, "git checkout", "temp_clone", "", a)
        rewritten == run(checked, "git filter-repo", "temp_clone", "", a)
        added == run(rewritten, "git remote add", "target", remote_name, a)
        fetched == run(added, "git fetch", "target", remote_name, a)
        merged == run(fetched, "git merge", "target", dir_, a)
    IN  run(merged, "git remote remove", "target", remote_name, a)

\* _perform_repo_merge(c, target_path, src_path, src_branch, dir_): mkdtemp, the
\* try block, and "rm -rf temp_dir" in the finally block.
_perform_repo_merge(r, dir_, a) ==
    IF r.raised # "none" THEN r
    ELSE LET temp_dir == [r EXCEPT !.world.temp = @ \cup {"temp_dir"}]
             tried == merge_steps(temp_dir, dir_, a)
             finally == run([tried EXCEPT !.raised = "none"], "rm -rf", "", "", a)
         IN  [finally EXCEPT !.raised = tried.raised]

\* import_repos without "git tag -a".
create_safety_tag_skipped(r, a) == r

\* import_repos, lines 875-881: the safety tag, named after the time.
create_safety_tag(r, a) ==
    run(r, "git tag -a", "target", <<IMPORT_REPOS_TAG_PREFIX, a.timestamp>>, a)

\* import_repos(c, target, source, dir_, yes, rollback); a holds the arguments,
\* whether the context is dry, the user's answers and the command that fails.
import_repos(world, a) ==
    LET r == [world |-> world, log |-> <<>>, raised |-> "none"]
        dir_ == IF a.dir_ = "" THEN SourceName ELSE a.dir_
        target == _validate_git_repo(r, world.target)
        source == _validate_git_repo(target, world.source)
        dest == IF dir_ \in world.target.dirs THEN vanish(source) ELSE source
        target_status == _validate_and_display_repo_status(dest, "target", FALSE, a)
        source_status == _validate_and_display_repo_status(target_status, "source", TRUE, a)
        confirmed == IF a.yes THEN source_status ELSE ask_yes_no(source_status, a)
        tagged == create_safety_tag(confirmed, a)
        merged == _perform_repo_merge(tagged, dir_, a)
    IN  IF a.rollback THEN _handle_rollback(r, a)
        ELSE IF a.source = "" THEN vanish(r)
        ELSE run(merged, "git log -1", "target", "", a)

\* No tag chosen at the fzf prompt.
NoTag == [name |-> <<>>, dirs |-> {}]

RepoKinds == {"missing", "dir", "repo"}

InitGit ==
    /\ environ \in {{}, {"dry"}}
    /\ ignore_modules = << <<>> >>
    /\ config = [include |-> <<>>, exclude |-> <<>>]
    /\ to_collection = [tasks |-> <<>>, collections |-> <<>>]
    /\ filesystem \in
           [target : [kind : RepoKinds, tags : {{}}, remotes : {{}}, dirs : {{}, {"sub"}}],
            source : [kind : RepoKinds],
            temp : {{}}]
    /\ calls = 0
    /\ last = [op |-> "none"]

\* invoke [--dry] git.import-repos --target=... [--source=...] [--dir=...] [--yes]
\* [--rollback]
ImportRepos(source, dir_, yes, rollback, answer, pick, fails) ==
    /\ calls < MaxCalls
    /\ LET a == [source |-> source, dir_ |-> dir_, yes |-> yes, rollback |-> rollback,
                 dry |-> "dry" \in environ, answer |-> answer, pick |-> pick,
                 fails |-> fails, timestamp |-> calls]
           done == import_repos(filesystem, a)
       IN  /\ filesystem' = done.world
           /\ last' = [op |-> "import_repos", source |-> source, dir_ |-> dir_, yes |-> yes,
                       rollback |-> rollback, answer |-> answer,
                       before |-> filesystem, log |-> done.log, raised |-> done.raised]
    /\ calls' = calls + 1
    /\ UNCHANGED <<environ, ignore_modules, config, to_collection>>

NextGit ==
    \/ \E source \in {"", SourceName}, dir_ \in {"", "sub"}, yes \in BOOLEAN,
          fails \in {"none"} \cup (GitCommands \ {"git reset --hard", "git tag -d"}) :
          \E answer \in (IF yes THEN {"y"} ELSE {"y", "n"}) :
              ImportRepos(source, dir_, yes, FALSE, answer, NoTag, fails)
    \/ \E source \in {"", SourceName}, answer \in {"y", "n"},
          pick \in filesystem.target.tags \cup {NoTag},
          fails \in {"none", "git reset --hard", "git tag -d"} :
          ImportRepos(source, "", FALSE, TRUE, answer, pick, fails)

SpecGit == InitGit /\ [][NextGit]_vars

AfterImport == last.op = "import_repos"

\* A command that ran in the target and changes it after the tag.
ChangesTarget(e) ==
    e.ran /\ e.cwd = "target" /\ e.cmd \in {"git remote add", "git fetch", "git merge"}

\* The commands that write: to the target, to the temporary clone.
WritingCommands == GitCommands \ {"git branch -a"}

SafetyTagMade(e) == e.cmd = "git tag -a" /\ e.cwd = "target" /\ e.ran /\ e.ok

(* C13: import_repos creates a tag before merging.  In every run, before the
   first command that changes the target (git remote add, fetch, merge) the
   safety tag before-import-repos-<timestamp> was created in the target, holding
   the target as it was; both repositories were valid Git repositories and the
   user had confirmed, or --yes was given. *)
C13_TagBeforeMerge ==
    (AfterImport /\ ~last.rollback) =>
        \A i \in DOMAIN last.log :
            ChangesTarget(last.log[i]) =>
                /\ \E j \in 1..(i - 1) :
                       /\ SafetyTagMade(last.log[j])
                       /\ last.yes \/ \E k \in 1..(j - 1) :
                                         last.log[k].cmd = "ask_yes_no" /\ last.log[k].ok
                /\ \E t \in filesystem.target.tags :
                       /\ t.name[1] = IMPORT_REPOS_TAG_PREFIX
                       /\ t \notin last.before.target.tags
                       /\ t.dirs = last.before.target.dirs
                /\ last.before.target.kind = "repo"
                /\ last.before.source.kind = "repo"

\* A run the user confirmed at the prompt and that merged.
C13_Witness ==
    /\ AfterImport /\ ~last.rollback /\ ~last.yes
    /\ last.raised = "none"
    /\ \E i \in DOMAIN last.log :
           last.log[i].cmd = "git merge" /\ last.log[i].ran /\ last.log[i].ok
    /\ "lib" \in filesystem.target.dirs

\* The merge step ended: its finally block was reached.
MergeStepEnded == \E i \in DOMAIN last.log : last.log[i].cmd = "rm -rf"

(* C14: import_repos cleans up.  Whenever the merge step has ended, all git
   commands having succeeded or one of them having failed, the temporary clone
   directory is removed and no remote temp-import-<dir> is configured in the
   target. *)
C14_CleansUp ==
    (AfterImport /\ MergeStepEnded) =>
        /\ filesystem.temp = {}
        /\ \A remote \in filesystem.target.remotes : remote[1] # "temp-import"

\* What import_repos validates: --source given, target and source valid Git
\* repositories, the destination directory not in the target yet.
ValidImport ==
    /\ last.source # ""
    /\ last.before.target.kind = "repo"
    /\ last.before.source.kind = "repo"
    /\ (IF last.dir_ = "" THEN SourceName ELSE last.dir_) \notin last.before.target.dirs

\* The run exited without a tag, a clone or a remote and without a command that writes.
ExitedUnchanged ==
    /\ last.raised = "SystemExit"
    /\ filesystem = last.before
    /\ \A i \in DOMAIN last.log : last.log[i].cmd \notin WritingCommands

\* No git push, and no command that writes inside the source repository.
SourceUntouched ==
    /\ filesystem.source = last.before.source
    /\ \A i \in DOMAIN last.log :
           /\ last.log[i].cmd # "git push"
           /\ last.log[i].cwd = "source" => last.log[i].cmd \notin WritingCommands

(* C15: import_repos validates before it changes anything.  When --source is
   missing, the target or the source does not exist or is no Git repository,
   or the destination directory exists in the target, the task exits
   (SystemExit) with nothing created and no writing command run; and it never
   runs git push or a writing command in the source repository. *)
C15_ValidatesBeforeChanging ==
    AfterImport =>
        /\ ~ValidImport => ExitedUnchanged
        /\ SourceUntouched

(* C15 amended: the same, for the runs without --rollback (a rollback takes no
   --source and resets the target). *)
C15_ValidatesBeforeChangingUnlessRollback ==
    AfterImport =>
        /\ (~last.rollback /\ ~ValidImport) => ExitedUnchanged
        /\ SourceUntouched

\* The destination directory exists in a valid target: exit, nothing run.
C15_Witness ==
    /\ AfterImport /\ ~last.rollback
    /\ last.source # ""
    /\ last.before.target.kind = "repo" /\ last.before.source.kind = "repo"
    /\ last.dir_ = "sub" /\ "sub" \in last.before.target.dirs
    /\ last.raised = "SystemExit"
    /\ last.log = <<>>

----------------------------------------------------------------------------
(* media.compare_dirs: conjuring.spells.media *)

(* In the runs of compare_dirs filesystem is [from_dir, output, output_dirs,
   stop_file]: the names of the files of the source directory, the paths made
   under the output directory and whether the stop file exists.  The
   destination directory is never written: what it holds for each name is
   given by Destination and WildcardFound. *)

DOT_DS_STORE == ".DS_Store"

\* The files of the source directory, in the order "sort" lists them.
MediaFiles == <<".DS_Store", "a.jpg", "b.jpg", "c (1).jpg", "d.jpg", "e-2.jpg">>

\* source_file.stat().st_size
st_size(name) == IF name = "b.jpg" THEN 2 ELSE 1

\* The file of the same relative path in to_dir: missing, or how diff compares it.
Destination(name) ==
    CASE name = "a.jpg" -> "identical"
      [] name = "b.jpg" -> "different"
      [] OTHER -> "missing"

\* What "fd -t f -u <name with wildcards>" finds in to_dir, as diff compares it.
WildcardFound(name) ==
    CASE name = "c (1).jpg" -> <<"identical">>
      [] name = "d.jpg" -> <<"identical", "different">>
      [] OTHER -> <<>>

\* check_stop_file(): [found, fs]; the stop file is removed when found.
check_stop_file(fs) ==
    IF ~fs.stop_file THEN [found |-> FALSE, fs |-> fs]
    ELSE [found |-> TRUE, fs |-> [fs EXCEPT !.stop_file = FALSE]]

\* _compare_files(c, source_file, destination_file, delete, move): the action.
_compare_files(compared, delete, move, config_dry) ==
    IF config_dry THEN "DO_NOTHING"
    ELSE IF compared = "identical"
    THEN (IF delete THEN "DELETE_IDENTICAL" ELSE IF move THEN "MOVE_IDENTICAL" ELSE "DO_NOTHING")
    ELSE (IF delete \/ move THEN "DIFF_FAILED" ELSE "DO_NOTHING")

\* _determine_action(c, source_file, to_dir, destination_file, delete, move,
\* wildcard_search): the action.
_determine_action(source_file, delete, move, wildcard_search, config_dry) ==
    LET found_lines == WildcardFound(source_file)
    IN  IF Destination(source_file) = "missing"
        THEN IF wildcard_search /\ found_lines # <<>>
             THEN IF Len(found_lines) > 1 THEN "DO_NOTHING"
                  ELSE _compare_files(found_lines[1], delete, move, config_dry)
             ELSE IF delete \/ move THEN "MOVE_NOT_FOUND" ELSE "DO_NOTHING"
        ELSE _compare_files(Destination(source_file), delete, move, config_dry)

\* CompareDirsAction.value: the directory of the output.
ActionValue(action) ==
    CASE action = "DELETE_IDENTICAL" -> "identical_deleted"
      [] action = "DIFF_FAILED" -> "diff_failed"
      [] action = "MOVE_IDENTICAL" -> "identical"
      [] action = "MOVE_NOT_FOUND" -> "not_found"

\* _execute unlinking and renaming also in a dry run.
_execute_ignoring_dry(fs, action, source_file, dry) ==
    [fs EXCEPT !.output_dirs = @ \cup {ActionValue(action)},
               !.from_dir = @ \ {source_file},
               !.output = @ \cup {<<ActionValue(action), source_file>>}]

\* _execute(action, source_file, file_description, output=, dry=): the files after.
_execute(fs, action, source_file, dry) ==
    LET made == [fs EXCEPT !.output_dirs = @ \cup {ActionValue(action)}]
    IN  IF dry THEN made
        ELSE [made EXCEPT !.from_dir = @ \ {source_file},
                          !.output = @ \cup {<<ActionValue(action), source_file>>}]

\* The loop of compare_dirs over the lines fd gave; st is [fs, current_size,
\* actions], actions the list of [file, action, dry] of the files handled.
RECURSIVE compare_lines(_, _, _)
compare_lines(st, lines_, a) ==
    IF lines_ = <<>> THEN st
    ELSE LET stop == check_stop_file(st.fs)
             source_file == Head(lines_)
             current_size == st.current_size + st_size(source_file)
             action == _determine_action(source_file, a.delete, a.move, a.wildcard_search,
                                         a.config_dry)
             handled == Append(st.actions,
                               [file |-> source_file, action |-> action, dry |-> a.dry])
         IN  IF stop.found THEN [st EXCEPT !.fs = stop.fs]
             ELSE IF source_file = DOT_DS_STORE THEN compare_lines(st, Tail(lines_), a)
             ELSE IF a.size # 0 /\ current_size > a.size THEN st
             ELSE IF action = "DO_NOTHING"
             THEN compare_lines([st EXCEPT !.current_size = current_size,
                                           !.actions = handled],
                                Tail(lines_), a)
             ELSE compare_lines([fs |-> _execute(st.fs, action, source_file, a.dry),
                                 current_size |-> current_size,
                                 actions |-> handled],
                                Tail(lines_), a)

\* run_lines(c, "fd -t f -u", max_results, ".", abs_from_dir, "| sort", dry=False):
\* the files of from_dir, at most count of them when count is not 0.
RECURSIVE fd_sorted(_, _, _)
fd_sorted(from_dir, names, count) ==
    IF names = <<>> \/ count = 0 THEN <<>>
    ELSE IF Head(names) \in from_dir
    THEN <<Head(names)>> \o fd_sorted(from_dir, Tail(names), count - 1)
    ELSE fd_sorted(from_dir, Tail(names), count)

\* compare_dirs(c, from_dir, to_dir, count, size, delete, move, wildcard_search);
\* config_dry is c.config.run.dry.  [fs, actions, printed].
compare_dirs(fs, count, size, delete, move, wildcard_search, config_dry) ==
    IF delete /\ move
    THEN [fs |-> fs, actions |-> <<>>, printed |-> "Choose either --delete or --move, not both"]
    ELSE LET dry == ~(delete \/ move) \/ config_dry
             max_results == IF count # 0 THEN count ELSE Len(MediaFiles)
             done == compare_lines([fs |-> fs, current_size |-> 0, actions |-> <<>>],
                                   fd_sorted(fs.from_dir, MediaFiles, max_results),
                                   [size |-> size, delete |-> delete, move |-> move,
                                    wildcard_search |-> wildcard_search,
                                    config_dry |-> config_dry, dry |-> dry])
         IN  [fs |-> done.fs, actions |-> done.actions, printed |-> ""]

\* The values of --count and --size of the runs (0: no limit).
Counts == {0, 4}
Sizes == {0, 3}

InitMedia ==
    /\ environ \in {{}, {"dry"}}
    /\ ignore_modules = << <<>> >>
    /\ config = [include |-> <<>>, exclude |-> <<>>]
    /\ to_collection = [tasks |-> <<>>, collections |-> <<>>]
    /\ filesystem \in [from_dir : {{MediaFiles[i] : i \in DOMAIN MediaFiles}},
                       output : {{}}, output_dirs : {{}}, stop_file : BOOLEAN]
    /\ calls = 0
    /\ last = [op |-> "none"]

\* invoke [--dry] media.compare-dirs from_dir to_dir [--count=] [--size=] [--delete]
\* [--move] [--wildcard-search]
CompareDirs(count, size, delete, move, wildcard_search) ==
    /\ calls < MaxCalls
    /\ LET done == compare_dirs(filesystem, count, size, delete, move, wildcard_search,
                                "dry" \in environ)
       IN  /\ filesystem' = done.fs
           /\ last' = [op |-> "compare_dirs", count |-> count, size |-> size,
                       delete |-> delete, move |-> move,
                       wildcard_search |-> wildcard_search,
                       before |-> filesystem, actions |-> done.actions,
                       printed |-> done.printed]
    /\ calls' = calls + 1
    /\ UNCHANGED <<environ, ignore_modules, config, to_collection>>

NextMedia ==
    \E count \in Counts, size \in Sizes, delete \in BOOLEAN, move \in BOOLEAN,
       wildcard_search \in BOOLEAN :
        CompareDirs(count, size, delete, move, wildcard_search)

SpecMedia == InitMedia /\ [][NextMedia]_vars

AfterCompare == last.op = "compare_dirs"

\* The source files the run removed or renamed.
SourceFilesGone == last.before.from_dir \ filesystem.from_dir

(* C16: compare_dirs deletes or moves a source file only when exactly one of
   --delete and --move is given and the run is not a dry run.  With both flags
   it prints an error and does nothing; with neither flag, or in a dry run,
   every file comes to DO_NOTHING or to a dry execution and no source file is
   removed or renamed. *)
C16_DeletesOrMovesOnlyWithOneFlag ==
    AfterCompare =>
        /\ (last.delete /\ last.move) =>
               /\ last.printed # ""
               /\ filesystem = last.before
               /\ last.actions = <<>>
        /\ (~(last.delete \/ last.move) \/ "dry" \in environ) =>
               /\ \A i \in DOMAIN last.actions :
                      last.actions[i].action = "DO_NOTHING" \/ last.actions[i].dry
               /\ SourceFilesGone = {}
               /\ filesystem.output = last.before.output
        /\ SourceFilesGone # {} =>
               /\ last.delete # last.move
               /\ "dry" \notin environ

\* A dry run with --delete that came to an execution and left the file.
C16_Witness ==
    /\ AfterCompare
    /\ "dry" \in environ
    /\ last.delete /\ ~last.move
    /\ \E i \in DOMAIN last.actions : last.actions[i].action = "MOVE_NOT_FOUND"
    /\ SourceFilesGone = {}

----------------------------------------------------------------------------
(* grimoire.unique_file_name *)

(* A path of the directory is [stem, suffix]; the stem is a sequence of pieces:
   a word (with no "_copy" in it and no digit at its start), "_copy" in either
   case, or one digit.  In the runs of unique_file_name filesystem is the set of
   the paths that exist. *)

DigitChars == <<"0", "1", "2", "3", "4", "5", "6", "7", "8", "9">>

IsDigit(piece) == \E d \in DOMAIN DigitChars : DigitChars[d] = piece

DigitValue(piece) == (CHOOSE d \in DOMAIN DigitChars : DigitChars[d] = piece) - 1

\* int(text) of a sequence of digits.
RECURSIVE int(_)
int(digits) ==
    IF digits = <<>> THEN 0
    ELSE 10 * int(SubSeq(digits, 1, Len(digits) - 1)) + DigitValue(digits[Len(digits)])

\* str(number) as a sequence of digits.
RECURSIVE str(_)
str(number) ==
    IF number < 10 THEN <<DigitChars[number + 1]>>
    ELSE str(number \div 10) \o <<DigitChars[(number % 10) + 1]>>

\* "_copy" under re.IGNORECASE
IsCopy(piece) == piece \in {"_copy", "_COPY"}

\* The digits at the start of pieces: (?P<index>\d+)
RECURSIVE leading_digits(_)
leading_digits(pieces) ==
    IF pieces # <<>> /\ IsDigit(Head(pieces))
    THEN <<Head(pieces)>> \o leading_digits(Tail(pieces))
    ELSE <<>>

\* REGEX_UNIQUE_FILE.finditer(stem): the last match, [matched, original_stem,
\* index]; ".+" is greedy, so "_copy" is the last one with something before it,
\* and nothing after the match can match again.
REGEX_UNIQUE_FILE(stem) ==
    LET at == {p \in 2..Len(stem) : IsCopy(stem[p])}
    IN  IF at = {} THEN [matched |-> FALSE, original_stem |-> <<>>, index |-> <<>>]
        ELSE LET p == CHOOSE q \in at : \A o \in at : o <= q
             IN  [matched |-> TRUE,
                  original_stem |-> SubSeq(stem, 1, p - 1),
                  index |-> leading_digits(SubSeq(stem, p + 1, Len(stem)))]

\* One turn of the loop of unique_file_name: the next path.
new_name(path) ==
    LET match == REGEX_UNIQUE_FILE(path.stem)
        new_stem == IF match.matched THEN match.original_stem ELSE path.stem
        index == IF match.matched THEN str(int(match.index) + 1) ELSE <<>>
    IN  [stem |-> new_stem \o <<"_copy">> \o index, suffix |-> path.suffix]

\* The most turns of the loop that are followed.
MaxTurns == 12

\* unique_file_name(path_or_str): [path, turns]; exists is the set of the paths
\* that exist.
RECURSIVE unique_file_name(_, _, _)
unique_file_name(path, exists, turns) ==
    IF path \in exists /\ turns < MaxTurns
    THEN unique_file_name(new_name(path), exists, turns + 1)
    ELSE [path |-> path, turns |-> turns]

File_(stem, suffix) == [stem |-> stem, suffix |-> suffix]

\* The paths given to unique_file_name.
GivenPaths ==
    {File_(<<"foo">>, ".gz"), File_(<<"foo.tar">>, ".gz"), File_(<<"foo", "_copy">>, ".gz"),
     File_(<<"foo", "_copy", "9">>, ".gz"), File_(<<"a", "_copy", "right">>, ""),
     File_(<<"foo", "_COPY">>, ".gz")}

\* The paths that may exist before the first call.
ExistingPaths ==
    {File_(<<"foo">>, ".gz"), File_(<<"foo", "_copy">>, ".gz"),
     File_(<<"foo", "_copy", "1">>, ".gz"), File_(<<"a", "_copy", "right">>, "")}

InitUnique ==
    /\ environ = {}
    /\ ignore_modules = << <<>> >>
    /\ config = [include |-> <<>>, exclude |-> <<>>]
    /\ to_collection = [tasks |-> <<>>, collections |-> <<>>]
    /\ filesystem \in SUBSET ExistingPaths
    /\ calls = 0
    /\ last = [op |-> "none"]

\* tar_gz_file = unique_file_name(path), and the file is written under that name.
UniqueFileName(path) ==
    /\ calls < MaxCalls
    /\ LET done == unique_file_name(path, filesystem, 0)
       IN  /\ filesystem' = filesystem \cup {done.path}
           /\ last' = [op |-> "unique_file_name", path |-> path, before |-> filesystem,
                       returned |-> done.path, turns |-> done.turns]
    /\ calls' = calls + 1
    /\ UNCHANGED <<environ, ignore_modules, config, to_collection>>

NextUnique == \E path \in GivenPaths : UniqueFileName(path)

SpecUnique == InitUnique /\ [][NextUnique]_vars

AfterUnique == last.op = "unique_file_name"

\* '<stem>_copy<suffix>', '<stem>_copy1<suffix>', '<stem>_copy2<suffix>', ...
CopyName(path, k) ==
    [stem |-> path.stem \o <<"_copy">> \o (IF k = 0 THEN <<>> ELSE str(k)),
     suffix |-> path.suffix]

\* The first path of the sequence that does not exist.
FirstFreeCopy(path, exists) ==
    LET k == CHOOSE n \in 0..Cardinality(exists) :
                 /\ CopyName(path, n) \notin exists
                 /\ \A o \in 0..(n - 1) : CopyName(path, o) \in exists
    IN  CopyName(path, k)

(* C17: unique_file_name returns the given path when it does not exist, and
   otherwise the first path that does not exist of <stem>_copy<suffix>,
   <stem>_copy1<suffix>, <stem>_copy2<suffix>, ... in the same directory; the
   path returned never exists, and the loop ends for every finite set of
   existing files. *)
C17_UniqueFileName ==
    AfterUnique =>
        /\ last.path \notin last.before => last.returned = last.path
        /\ last.path \in last.before =>
               last.returned = FirstFreeCopy(last.path, last.before)
        /\ last.returned \notin last.before
        /\ last.turns <= Cardinality(last.before)

----------------------------------------------------------------------------
(* grimoire.iter_path_with_progress *)

(* In the runs of iter_path_with_progress filesystem is [stop_file, found]:
   whether the stop file exists, and the lines fd prints for each depth, a line
   being <<depth, name>>.  last is the generator: the arguments, all_lines, the
   paths yielded so far and where the generator stands. *)

\* reverse_depth=None
NoDepth == -1

\* depth_range in ascending order.
depth_range_ascending(reverse_depth) ==
    IF reverse_depth = NoDepth THEN <<NoDepth>>
    ELSE [i \in 1..reverse_depth |-> i]

\* depth_range = [None] if reverse_depth is None else range(reverse_depth, 0, -1)
depth_range(reverse_depth) ==
    IF reverse_depth = NoDepth THEN <<NoDepth>>
    ELSE [i \in 1..reverse_depth |-> reverse_depth - i + 1]

\* The lines of all depths, as fd prints them with no --min-depth and --max-depth.
RECURSIVE fd_all(_, _)
fd_all(found, depth) ==
    IF depth \notin DOMAIN found THEN <<>>
    ELSE found[depth] \o fd_all(found, depth + 1)

\* run_lines(c, fd_command, dry=False)
fd(found, current_depth) ==
    IF current_depth = NoDepth THEN fd_all(found, 1)
    ELSE IF current_depth \in DOMAIN found THEN found[current_depth]
    ELSE <<>>

\* The first loop of iter_path_with_progress: [all_lines, warnings], warnings
\* the depths for which "No files found" was printed.
RECURSIVE collect_lines(_, _, _)
collect_lines(found, depths, acc) ==
    IF depths = <<>> THEN acc
    ELSE LET lines_ == fd(found, Head(depths))
         IN  collect_lines(found, Tail(depths),
                           IF lines_ # <<>>
                           THEN [acc EXCEPT !.all_lines = @ \o lines_]
                           ELSE [acc EXCEPT !.warnings = Append(@, Head(depths))])

\* iter_path_with_progress(c, *fd_pieces, max_count=, reverse_depth=) up to the
\* first yield: the generator.
iter_path_with_progress(found, max_count, reverse_depth, id) ==
    LET collected == collect_lines(found, depth_range(reverse_depth),
                                   [all_lines |-> <<>>, warnings |-> <<>>])
    IN  [op |-> "iter_path_with_progress", id |-> id, max_count |-> max_count,
         reverse_depth |-> reverse_depth, all_lines |-> collected.all_lines,
         warnings |-> collected.warnings, yielded |-> <<>>, at |-> "running"]

\* The generator resumed, by the for loop that consumes it: [fs, generator].
\* After a yield the count is tested, then the next line is taken and the stop
\* file looked for.
resume(fs, g) ==
    LET index == Len(g.yielded)
        stop == check_stop_file(fs)
    IN  IF index > 0 /\ g.max_count # 0 /\ index >= g.max_count
        THEN [fs |-> fs, generator |-> [g EXCEPT !.at = "max_count"]]
        ELSE IF index = Len(g.all_lines)
        THEN [fs |-> fs, generator |-> [g EXCEPT !.at = "exhausted"]]
        ELSE IF stop.found
        THEN [fs |-> stop.fs, generator |-> [g EXCEPT !.at = "stopped"]]
        ELSE [fs |-> fs,
              generator |-> [g EXCEPT !.yielded = Append(@, g.all_lines[index + 1])]]

\* What fd finds: depth -> lines.
FoundTrees ==
    {<< <<<<1, "a">>>>, <<<<2, "a/b">>, <<2, "a/c">>>>, <<<<3, "a/b/d">>>> >>,
     << <<<<1, "a">>>>, <<>>, <<<<3, "a/b/d">>>> >>}

MaxCounts == {0, 1, 3}

ReverseDepths == {NoDepth, 2, 3}

InitIter ==
    /\ environ = {}
    /\ ignore_modules = << <<>> >>
    /\ config = [include |-> <<>>, exclude |-> <<>>]
    /\ to_collection = [tasks |-> <<>>, collections |-> <<>>]
    /\ filesystem \in [stop_file : BOOLEAN, found : FoundTrees]
    /\ calls = 0
    /\ last = [op |-> "none", at |-> "none"]

\* for path in iter_path_with_progress(c, ..., max_count=, reverse_depth=): the
\* generator is made and runs up to the loop over all_lines.
IterPathWithProgress(max_count, reverse_depth) ==
    /\ calls < MaxCalls
    /\ last.at # "running"
    /\ last' = iter_path_with_progress(filesystem.found, max_count, reverse_depth, calls)
    /\ calls' = calls + 1
    /\ UNCHANGED <<environ, ignore_modules, config, to_collection, filesystem>>

\* The for loop asks the generator for the next path.
NextPath ==
    /\ last.at = "running"
    /\ LET done == resume(filesystem, last)
       IN  /\ filesystem' = done.fs
           /\ last' = done.generator
    /\ UNCHANGED <<environ, ignore_modules, config, to_collection, calls>>

\* The user makes the stop file while the loop runs.
TouchStopFile ==
    /\ last.at = "running"
    /\ ~filesystem.stop_file
    /\ filesystem' = [filesystem EXCEPT !.stop_file = TRUE]
    /\ UNCHANGED <<environ, ignore_modules, config, to_collection, calls, last>>

NextIter ==
    \/ \E max_count \in MaxCounts, reverse_depth \in ReverseDepths :
           IterPathWithProgress(max_count, reverse_depth)
    \/ NextPath
    \/ TouchStopFile

SpecIter == InitIter /\ [][NextIter]_vars

Iterating == last.op = "iter_path_with_progress"

\* The depth fd found the line at.
DepthOf(line) == line[1]

\* No more than max_count paths are yielded.
WithinMaxCount == last.max_count > 0 => Len(last.yielded) <= last.max_count

\* Every path found at depth k is yielded before any path of a smaller depth.
DeepestFirst ==
    last.reverse_depth # NoDepth =>
        \A j \in DOMAIN last.yielded :
            \A k \in (DepthOf(last.yielded[j]) + 1)..last.reverse_depth :
                \A x \in DOMAIN fd(filesystem.found, k) :
                    \E i \in 1..(j - 1) : last.yielded[i] = fd(filesystem.found, k)[x]

\* A step of the generator that starts with the stop file in place yields
\* nothing, ends the generator and removes the stop file; an ended generator
\* yields nothing more.
StopFileEndsTheLoop ==
    /\ (Iterating /\ last.at = "running" /\ filesystem.stop_file /\ last' # last
           /\ Len(last.yielded) < Len(last.all_lines)
           /\ ~(Len(last.yielded) > 0 /\ last.max_count # 0
                   /\ Len(last.yielded) >= last.max_count)) =>
           /\ last'.at = "stopped"
           /\ last'.yielded = last.yielded
           /\ ~filesystem'.stop_file
    /\ (Iterating /\ last.at # "running" /\ last'.id = last.id) =>
           last'.yielded = last.yielded

(* C18: iter_path_with_progress can be stopped with a stop file and a count.
   It yields no further path once check_stop_file finds the stop file at the
   start of an iteration, and that check removes the stop file; it never yields
   more than max_count paths when max_count > 0; with reverse_depth = d it
   yields every path found at depth k before any path found at a smaller
   depth. *)
C18_StopFileCountAndDepth ==
    /\ [](Iterating => (WithinMaxCount /\ DeepestFirst))
    /\ [][StopFileEndsTheLoop]_vars

\* A loop over the depths 3 to 1 with a count of 3, stopped by the stop file
\* after two paths of different depths.
C18_Witness ==
    /\ Iterating
    /\ last.at = "stopped"
    /\ last.max_count > 0
    /\ last.reverse_depth # NoDepth
    /\ Len(last.yielded) = 2
    /\ DepthOf(last.yielded[1]) > DepthOf(last.yielded[2])
    /\ ~filesystem.stop_file

----------------------------------------------------------------------------
(* paperless.sanity: conjuring.spells.paperless *)

(* In the runs of sanity environ holds the names of the environment variables
   that are set (and "dry" for invoke --dry), and filesystem is [root_dir,
   documents_dir, compose_yaml, documents, downloads]: whether the three paths
   exist, the files under the documents directory and the files under the
   downloads directory.  An orphan file is [part, name]. *)

ORPHAN_ARCHIVE == "archive"
ORPHAN_ORIGINALS == "originals"
ORPHAN_THUMBNAILS == "thumbnails"
COUNT_PAIR == 2

\* lazy_env_variable(variable, description): [value, raised, printed]
lazy_env_variable(env, variable) ==
    IF variable \in env
    THEN [value |-> variable, raised |-> "", printed |-> ""]
    ELSE [value |-> "", raised |-> "SystemExit", printed |-> variable]

\* paperless_cmd without the test of the compose file.
paperless_cmd_unchecked(env, fs) ==
    LET value == lazy_env_variable(env, "PAPERLESS_COMPOSE_YAML")
    IN  IF value.raised # "" THEN [command |-> "", raised |-> value.raised]
        ELSE [command |-> "docker compose exec webserver", raised |-> ""]

\* paperless_cmd(instance): [command, raised]
paperless_cmd(env, fs) ==
    LET value == lazy_env_variable(env, "PAPERLESS_COMPOSE_YAML")
    IN  IF value.raised # "" THEN [command |-> "", raised |-> value.raised]
        ELSE IF ~fs.compose_yaml THEN [command |-> "", raised |-> "FileNotFoundError"]
        ELSE [command |-> "docker compose exec webserver", raised |-> ""]

\* paperless_root_dir(instance): [raised]
paperless_root_dir(env, fs) ==
    LET value == lazy_env_variable(env, "PAPERLESS_ROOT_DIR")
    IN  IF value.raised # "" THEN [raised |-> value.raised]
        ELSE IF ~fs.root_dir THEN [raised |-> "FileNotFoundError"]
        ELSE [raised |-> ""]

Orphan(part, name) == [part |-> part, name |-> name]

\* _process_orphans and _split_original_archive: the orphans of the originals
\* and the archive that share the key of orphan, among those reported.
SameKey(reported, orphan) ==
    {o \in reported : o.part \in {ORPHAN_ARCHIVE, ORPHAN_ORIGINALS} /\ o.name = orphan.name}

\* _split_matched_unmatched: the destination of a file of the originals or the
\* archive, [dir, part, name].
Destination_(reported, orphan, together) ==
    IF Cardinality(SameKey(reported, orphan)) = COUNT_PAIR
    THEN IF together
         THEN [dir |-> "Matched originals/archive pairs", part |-> "",
               name |-> IF orphan.part = ORPHAN_ARCHIVE
                        THEN orphan.name \o <<"-archive">> ELSE orphan.name]
         ELSE [dir |-> "Matched originals/archive pairs", part |-> orphan.part,
               name |-> orphan.name]
    ELSE [dir |-> "Unmatched originals/archive files", part |-> orphan.part,
          name |-> orphan.name]

\* _handle_items over the matched and the unmatched files: the files after.
\* The other collections hold strings and documents, which are only printed.
_handle_items(fs, reported, fix, move, together) ==
    LET handled == {o \in reported : o.part \in {ORPHAN_ARCHIVE, ORPHAN_ORIGINALS}
                                      /\ o \in fs.documents}
        written == {Destination_(reported, o, together) : o \in handled}
    IN  IF ~fix THEN fs
        ELSE [fs EXCEPT !.downloads = @ \cup written,
                        !.documents = IF move THEN @ \ handled ELSE @]

\* sanity(c, instance, hide, orphans, thumbnails, documents, unknown, errors,
\* together, fix, move): [fs, raised, commands]; reported is what
\* document_sanity_checker prints when it runs, a.dry is c.config.run.dry.
sanity(env, fs, a) ==
    LET root_dir == paperless_root_dir(env, fs)
        cmd == paperless_cmd(env, fs)
    IN  IF root_dir.raised # ""
        THEN [fs |-> fs, raised |-> root_dir.raised, commands |-> <<>>]
        ELSE IF ~fs.documents_dir
        THEN [fs |-> fs, raised |-> "RuntimeError", commands |-> <<>>]
        ELSE IF cmd.raised # "" THEN [fs |-> fs, raised |-> cmd.raised, commands |-> <<>>]
        ELSE LET lines_ == IF a.dry \/ a.failed THEN {} ELSE a.reported
             IN  [fs |-> _handle_items(fs, lines_, a.fix, a.move, a.together),
                  raised |-> "",
                  commands |-> <<[command |-> cmd.command, ran |-> ~a.dry]>>]

\* The orphan files under the documents directory.
OrphanFiles ==
    {Orphan(ORPHAN_ORIGINALS, <<"x">>), Orphan(ORPHAN_ARCHIVE, <<"x">>),
     Orphan(ORPHAN_ORIGINALS, <<"y">>), Orphan(ORPHAN_THUMBNAILS, <<"t">>)}

\* What document_sanity_checker reports.
Reports == {{}, OrphanFiles, OrphanFiles \ {Orphan(ORPHAN_ARCHIVE, <<"x">>)}}

InitPaperless ==
    /\ environ \in SUBSET {"PAPERLESS_ROOT_DIR", "PAPERLESS_COMPOSE_YAML", "dry"}
    /\ ignore_modules = << <<>> >>
    /\ config = [include |-> <<>>, exclude |-> <<>>]
    /\ to_collection = [tasks |-> <<>>, collections |-> <<>>]
    /\ filesystem \in {fs \in [root_dir : BOOLEAN, documents_dir : BOOLEAN,
                               compose_yaml : BOOLEAN, documents : {{}, OrphanFiles},
                               downloads : {{}}] :
                           /\ fs.documents_dir => fs.root_dir
                           /\ fs.documents # {} => fs.documents_dir}
    /\ calls = 0
    /\ last = [op |-> "none"]

\* invoke [--dry] paperless.sanity instance [--fix] [--move] [--together]
Sanity(fix, move, together, reported, failed) ==
    /\ calls < MaxCalls
    /\ LET done == sanity(environ, filesystem,
                          [fix |-> fix, move |-> move, together |-> together,
                           reported |-> reported, failed |-> failed,
                           dry |-> "dry" \in environ])
       IN  /\ filesystem' = done.fs
           /\ last' = [op |-> "sanity", fix |-> fix, move |-> move, together |-> together,
                       before |-> filesystem, raised |-> done.raised,
                       commands |-> done.commands]
    /\ calls' = calls + 1
    /\ UNCHANGED <<environ, ignore_modules, config, to_collection>>

NextPaperless ==
    \E fix \in BOOLEAN, move \in BOOLEAN, together \in BOOLEAN, reported \in Reports,
       failed \in BOOLEAN :
        Sanity(fix, move, together, reported, failed)

SpecPaperless == InitPaperless /\ [][NextPaperless]_vars

AfterSanity == last.op = "sanity"

\* The configuration sanity needs is missing.
MissingConfiguration ==
    \/ "PAPERLESS_ROOT_DIR" \notin environ
    \/ "PAPERLESS_COMPOSE_YAML" \notin environ
    \/ ~last.before.root_dir
    \/ ~last.before.documents_dir
    \/ ~last.before.compose_yaml

(* C19: sanity fails fast on missing configuration.  When PAPERLESS_ROOT_DIR or
   PAPERLESS_COMPOSE_YAML is not set, SystemExit is raised; when the Paperless
   root directory, the documents directory or the compose file does not exist,
   an exception is raised; in both cases no command is run and no file is
   copied or moved. *)
C19_SanityFailsFast ==
    (AfterSanity /\ MissingConfiguration) =>
        /\ last.raised # ""
        /\ ("PAPERLESS_ROOT_DIR" \notin environ
               \/ ("PAPERLESS_COMPOSE_YAML" \notin environ
                      /\ last.before.root_dir /\ last.before.documents_dir)) =>
               last.raised = "SystemExit"
        /\ last.commands = <<>>
        /\ filesystem = last.before

\* A run with --fix, both variables set and the directories in place, where only
\* the compose file is missing.
C19_Witness ==
    /\ AfterSanity
    /\ last.fix
    /\ {"PAPERLESS_ROOT_DIR", "PAPERLESS_COMPOSE_YAML"} \subseteq environ
    /\ last.before.documents_dir
    /\ last.before.documents # {}
    /\ ~last.before.compose_yaml
    /\ last.raised = "FileNotFoundError"

----------------------------------------------------------------------------
(* grimoire.run_command and grimoire.run_stdout *)

(* Keyword arguments are a function from the names given to their values; a
   name left out, or given as None, is not in its domain.  A command is the
   sequence of its pieces, the output of a command a sequence of characters.
   In these runs filesystem is the list of the commands that were executed
   last. *)

\* str(piece).strip() is empty
Blank(piece) == piece \in {"", " "}

NotBlank(piece) == ~Blank(piece)

\* join_pieces(*pieces)
join_pieces(pieces) == SelectSeq(pieces, NotBlank)

\* kwargs.setdefault(key, default)
kwargs_setdefault(kwargs, key, default) ==
    IF key \in DOMAIN kwargs THEN kwargs ELSE kwargs @@ (key :> default)

IsSpace(char) == char \in {" ", "\n"}

\* text.lstrip()
RECURSIVE lstrip(_)
lstrip(text) ==
    IF text # <<>> /\ IsSpace(Head(text)) THEN lstrip(Tail(text)) ELSE text

\* text.rstrip()
RECURSIVE rstrip(_)
rstrip(text) ==
    IF text # <<>> /\ IsSpace(text[Len(text)])
    THEN rstrip(SubSeq(text, 1, Len(text) - 1))
    ELSE text

\* text.strip()
strip(text) == rstrip(lstrip(text))

\* c.run(command, **kwargs): [command, opts, ran, exited, stdout, raised].  A
\* keyword not given takes the value of the configuration; a dry run prints the
\* command and gives an empty result; a command that fails raises unless warn.
c_run(command, kwargs, config_run, outcome) ==
    LET opts == kwargs @@ config_run
    IN  IF opts["dry"]
        THEN [command |-> command, opts |-> opts, ran |-> FALSE, exited |-> 0,
              stdout |-> <<>>, raised |-> ""]
        ELSE [command |-> command, opts |-> opts, ran |-> TRUE, exited |-> outcome.exited,
              stdout |-> outcome.stdout,
              raised |-> IF outcome.exited # 0 /\ ~opts["warn"]
                         THEN "UnexpectedExit" ELSE ""]

\* run_command(c, *pieces, dry=None, **kwargs): the result of c.run
run_command(pieces, kwargs, config_run, outcome) ==
    c_run(join_pieces(pieces),
          kwargs_setdefault(kwargs_setdefault(kwargs, "warn", FALSE), "hide", FALSE),
          config_run, outcome)

\* run_stdout leaving the caller's warn in place.
run_stdout_keeping_warn(pieces, kwargs, config_run, outcome) ==
    LET result == run_command(pieces,
                              kwargs_setdefault(
                                  kwargs_setdefault(kwargs_setdefault(kwargs, "hide", TRUE),
                                                    "pty", FALSE),
                                  "warn", TRUE),
                              config_run, outcome)
    IN  [result |-> result,
         raised |-> result.raised,
         returned |-> IF result.raised # "" \/ result.exited # 0 THEN <<>>
                      ELSE strip(result.stdout)]

\* run_stdout(c, *pieces, dry=None, **kwargs): [result, raised, returned]
run_stdout_(pieces, kwargs, config_run, outcome) ==
    LET with_defaults == kwargs_setdefault(kwargs_setdefault(kwargs, "hide", TRUE),
                                           "pty", FALSE)
        with_warn == [k \in DOMAIN with_defaults \cup {"warn"} |->
                          IF k = "warn" THEN TRUE ELSE with_defaults[k]]
        result == run_command(pieces, with_warn, config_run, outcome)
    IN  [result |-> result,
         raised |-> result.raised,
         returned |-> IF result.raised # "" \/ result.exited # 0 THEN <<>>
                      ELSE strip(result.stdout)]

\* The keyword arguments of the callers: warn and dry, each given or not.
CallerKwargs == UNION {[given -> BOOLEAN] : given \in SUBSET {"warn", "dry"}}

\* The pieces of the commands.
CommandPieces == {<<"git", "", "status">>, <<"fd", " ", ".">>}

\* What a command does when it is executed.
Outcomes ==
    [exited : {0, 1},
     stdout : {<<>>, <<"\n">>, <<"a", "\n">>, <<" ", "a", " ", "b", "\n", "\n">>}]

\* c.config.run: the defaults of invoke, dry when invoke --dry is given.
ConfigRun(env) ==
    [k \in {"warn", "hide", "pty", "dry"} |-> IF k = "dry" THEN "dry" \in env ELSE FALSE]

InitRun ==
    /\ environ \in {{}, {"dry"}}
    /\ ignore_modules = << <<>> >>
    /\ config = [include |-> <<>>, exclude |-> <<>>]
    /\ to_collection = [tasks |-> <<>>, collections |-> <<>>]
    /\ filesystem = <<>>
    /\ calls = 0
    /\ last = [op |-> "none"]

\* A task calls run_command(c, *pieces, **kwargs)
RunCommand(pieces, kwargs, outcome) ==
    /\ calls < MaxCalls
    /\ LET result == run_command(pieces, kwargs, ConfigRun(environ), outcome)
       IN  /\ last' = [op |-> "run_command", pieces |-> pieces, kwargs |-> kwargs,
                       outcome |-> outcome, result |-> result, raised |-> result.raised,
                       returned |-> <<>>]
           /\ filesystem' = IF result.ran THEN <<result.command>> ELSE <<>>
    /\ calls' = calls + 1
    /\ UNCHANGED <<environ, ignore_modules, config, to_collection>>

\* A task calls run_stdout(c, *pieces, **kwargs)
RunStdout(pieces, kwargs, outcome) ==
    /\ calls < MaxCalls
    /\ LET done == run_stdout_(pieces, kwargs, ConfigRun(environ), outcome)
       IN  /\ last' = [op |-> "run_stdout", pieces |-> pieces, kwargs |-> kwargs,
                       outcome |-> outcome, result |-> done.result, raised |-> done.raised,
                       returned |-> done.returned]
           /\ filesystem' = IF done.result.ran THEN <<done.result.command>> ELSE <<>>
    /\ calls' = calls + 1
    /\ UNCHANGED <<environ, ignore_modules, config, to_collection>>

NextRun ==
    \/ \E pieces \in CommandPieces, kwargs \in CallerKwargs, outcome \in Outcomes :
           RunCommand(pieces, kwargs, outcome)
    \/ \E pieces \in CommandPieces, kwargs \in CallerKwargs, outcome \in Outcomes :
           RunStdout(pieces, kwargs, outcome)

SpecRun == InitRun /\ [][NextRun]_vars

\* The command was executed and failed.
CommandFailed == last.result.ran /\ last.result.exited # 0

\* text without the whitespace at its two ends.
IsStripped(text, whole) ==
    \E i \in 1..(Len(whole) + 1), j \in 0..Len(whole) :
        /\ text = SubSeq(whole, i, j)
        /\ \A k \in 1..(i - 1) : IsSpace(whole[k])
        /\ \A k \in (j + 1)..Len(whole) : IsSpace(whole[k])
        /\ text # <<>> => (~IsSpace(text[1]) /\ ~IsSpace(text[Len(text)]))

(* C20: run_stdout suppresses the failure of the command.  It always runs the
   command with warn=True, whatever warn the caller gave, never raises for an
   exit code other than 0, returns the empty string when the command failed
   and the output without the whitespace at its ends when it succeeded.
   run_command has warn=False as the default, so a failing command raises
   unless the caller gave warn=True. *)
C20_RunStdoutSuppressesFailure ==
    /\ last.op = "run_stdout" =>
           /\ last.result.opts["warn"]
           /\ last.raised = ""
           /\ CommandFailed => last.returned = <<>>
           /\ ~CommandFailed => IsStripped(last.returned, last.result.stdout)
    /\ last.op = "run_command" =>
           /\ "warn" \notin DOMAIN last.kwargs => ~last.result.opts["warn"]
           /\ (CommandFailed /\ ~last.result.opts["warn"]) => last.raised = "UnexpectedExit"
           /\ (CommandFailed /\ last.raised = "") =>
                  ("warn" \in DOMAIN last.kwargs /\ last.kwargs["warn"])

\* run_stdout called with warn=False for a command that was executed and failed.
C20_Witness ==
    /\ last.op = "run_stdout"
    /\ "warn" \in DOMAIN last.kwargs
    /\ ~last.kwargs["warn"]
    /\ CommandFailed
    /\ last.outcome.stdout # <<>>
    /\ last.returned = <<>>

----------------------------------------------------------------------------
(* paperless.sanity: the classification of the orphan files *)

(* The path of an "Orphaned file in media dir:" line, with USR_SRC_DOCUMENTS
   taken off, is [dirs, stem, suffix]: dirs the directories, each one the
   sequence of the names its own name holds between commas, stem the pieces of
   the stem of the file, suffix its last suffix. *)

PartialPath(dirs, stem, suffix) == [dirs |-> dirs, stem |-> stem, suffix |-> suffix]

\* The names of directories, in the order of Python's sorted().
NameOrder == <<"2020", "archive", "bank", "originals", "other", "tax", "thumbnails">>

NameRank(name) == CHOOSE i \in DOMAIN NameOrder : NameOrder[i] = name

\* The suffixes, in the order of Python's strings.
SuffixOrder == <<"", ".jpg", ".pdf", ".txt", ".webp">>

SuffixRank(suffix) == CHOOSE i \in DOMAIN SuffixOrder : SuffixOrder[i] = suffix

\* sorted(part.split(","))
RECURSIVE sorted_names(_)
sorted_names(names) ==
    IF names = <<>> THEN <<>>
    ELSE LET rest == sorted_names(Tail(names))
             Before(x) == NameRank(x) < NameRank(Head(names))
             NotBefore(x) == ~Before(x)
         IN  SelectSeq(rest, Before) \o <<Head(names)>> \o SelectSeq(rest, NotBefore)

\* part.isnumeric() and len(part) == COUNT_PARTS and int(part) > STARTING_YEAR
IsYear(name) == name \in {"2020"}

\* partial_path.parts[0]: the first directory, or the file itself.
first_part(partial_path) ==
    IF partial_path.dirs = <<>> THEN <<"">> ELSE partial_path.dirs[1]

\* file_key: the path after its first part, without the suffix.
file_key(partial_path) ==
    [dirs |-> IF partial_path.dirs = <<>> THEN <<>> ELSE Tail(partial_path.dirs),
     stem |-> partial_path.stem]

\* expanded_parts: the directories, those with commas split and sorted.
RECURSIVE expanded_parts(_)
expanded_parts(dirs) ==
    IF dirs = <<>> THEN <<>>
    ELSE (IF Len(Head(dirs)) > 1 THEN sorted_names(Head(dirs)) ELSE Head(dirs))
             \o expanded_parts(Tail(dirs))

\* filtered_parts: without the directories of a year the file name starts with.
filtered_parts(partial_path) ==
    LET Kept(part) == ~(IsYear(part) /\ partial_path.stem # <<>>
                           /\ partial_path.stem[1] = part)
    IN  SelectSeq(expanded_parts(partial_path.dirs), Kept)

\* OrphanFile(source=orphan_dir / partial_path, destination=...)
OrphanFile(partial_path) ==
    [source |-> partial_path,
     destination |-> [dirs |-> filtered_parts(partial_path), stem |-> partial_path.stem,
                      suffix |-> partial_path.suffix]]

\* _split_original_archive(original_or_archive_files, partial_path, documents_dir):
\* the dictionary after; original_or_archive_files[file_key].append(orphan)
_split_original_archive(original_or_archive_files, partial_path) ==
    LET key == file_key(partial_path)
        group == IF Has(original_or_archive_files, key)
                 THEN Get(original_or_archive_files, key) ELSE <<>>
    IN  Put(original_or_archive_files, key, Append(group, OrphanFile(partial_path)))

\* _process_orphans(partial_path, documents_dir, original_or_archive_files,
\* orphan_files, thumbnail_files): the three collections after.
_process_orphans(st, partial_path) ==
    IF partial_path.stem = <<DOT_DS_STORE>> /\ partial_path.suffix = "" THEN st
    ELSE IF first_part(partial_path) = <<ORPHAN_THUMBNAILS>>
    THEN [st EXCEPT !.thumbnail_files = Append(@, partial_path)]
    ELSE IF first_part(partial_path) \in {<<ORPHAN_ARCHIVE>>, <<ORPHAN_ORIGINALS>>}
    THEN [st EXCEPT !.original_or_archive_files = _split_original_archive(@, partial_path)]
    ELSE [st EXCEPT !.orphan_files = Append(@, partial_path)]

\* OrphanFile.__lt__ for two files of one key: the paths differ in the first
\* part and in the suffix.
OrphanLess(a, b) ==
    \/ NameRank(first_part(a.source)[1]) < NameRank(first_part(b.source)[1])
    \/ /\ first_part(a.source) = first_part(b.source)
       /\ SuffixRank(a.source.suffix) < SuffixRank(b.source.suffix)

\* sorted(single_or_pair, reverse=True)
originals_first(pair) ==
    IF OrphanLess(pair[1], pair[2]) THEN <<pair[2], pair[1]>> ELSE pair

\* The destination of a matched file with --together: without the first part,
\* the archive with "-archive" after its stem.
together_destination(orphan_file) ==
    LET match_path == orphan_file.destination
    IN  [orphan_file EXCEPT
            !.destination =
                [dirs |-> Tail(match_path.dirs),
                 stem |-> IF match_path.dirs[1] = ORPHAN_ARCHIVE
                          THEN match_path.stem \o <<"-", ORPHAN_ARCHIVE>>
                          ELSE match_path.stem,
                 suffix |-> match_path.suffix]]

\* _split_matched_unmatched taking the first two files of a larger group as a pair.
RECURSIVE _split_matched_unmatched_first_two(_, _, _)
_split_matched_unmatched_first_two(groups, together, acc) ==
    IF groups = <<>> THEN acc
    ELSE LET single_or_pair == Head(groups)
             pair == originals_first(SubSeq(single_or_pair, 1, COUNT_PAIR))
         IN  _split_matched_unmatched_first_two(
                 Tail(groups), together,
                 IF Len(single_or_pair) >= COUNT_PAIR
                 THEN [acc EXCEPT !.matched_files =
                           @ \o (IF together
                                 THEN <<together_destination(pair[1]),
                                        together_destination(pair[2])>>
                                 ELSE pair)]
                 ELSE [acc EXCEPT !.unmatched_files = @ \o single_or_pair])

\* _split_matched_unmatched(original_or_archive_files, matched_files,
\* unmatched_files, together) over the values of the dictionary: [matched_files,
\* unmatched_files]
RECURSIVE _split_matched_unmatched(_, _, _)
_split_matched_unmatched(groups, together, acc) ==
    IF groups = <<>> THEN acc
    ELSE LET single_or_pair == Head(groups)
             pair == originals_first(single_or_pair)
         IN  _split_matched_unmatched(
                 Tail(groups), together,
                 IF Len(single_or_pair) = COUNT_PAIR
                 THEN [acc EXCEPT !.matched_files =
                           @ \o (IF together
                                 THEN <<together_destination(pair[1]),
                                        together_destination(pair[2])>>
                                 ELSE pair)]
                 ELSE [acc EXCEPT !.unmatched_files = @ \o single_or_pair])

\* The paths of the orphan lines.
OrphanPaths ==
    {PartialPath(<< <<"originals">> >>, <<".DS_Store">>, ""),
     PartialPath(<< <<"thumbnails">> >>, <<"t">>, ".webp"),
     PartialPath(<< <<"originals">>, <<"2020">> >>, <<"2020", "-x">>, ".pdf"),
     PartialPath(<< <<"archive">>, <<"2020">> >>, <<"2020", "-x">>, ".pdf"),
     PartialPath(<< <<"originals">>, <<"2020">> >>, <<"2020", "-x">>, ".jpg"),
     PartialPath(<< <<"archive">>, <<"tax", "bank">> >>, <<"y">>, ".pdf"),
     PartialPath(<< <<"other">> >>, <<"z">>, ".txt")}

\* The most orphan lines of a run.
MaxLines == 3

InitOrphans ==
    /\ environ = {"PAPERLESS_ROOT_DIR", "PAPERLESS_COMPOSE_YAML"}
    /\ ignore_modules = << <<>> >>
    /\ config = [include |-> <<>>, exclude |-> <<>>]
    /\ to_collection = [tasks |-> <<>>, collections |-> <<>>]
    /\ filesystem = <<>>
    /\ calls = 0
    /\ last = [op |-> "none", at |-> "none"]

\* invoke paperless.sanity instance [--together]: the run reaches the loop over
\* the lines of document_sanity_checker, the collections empty.
SanityStarts(together) ==
    /\ calls < MaxCalls
    /\ last.at # "lines"
    /\ last' = [op |-> "sanity", at |-> "lines", together |-> together, paths |-> <<>>,
                original_or_archive_files |-> <<>>, orphan_files |-> <<>>,
                thumbnail_files |-> <<>>, matched_files |-> <<>>, unmatched_files |-> <<>>]
    /\ calls' = calls + 1
    /\ UNCHANGED <<environ, ignore_modules, config, to_collection, filesystem>>

\* The loop of sanity takes a line "Orphaned file in media dir: <path>".
OrphanLine(partial_path) ==
    /\ last.at = "lines"
    /\ Len(last.paths) < MaxLines
    /\ LET st == _process_orphans(last, partial_path)
       IN  last' = [st EXCEPT !.paths = Append(@, partial_path)]
    /\ UNCHANGED <<environ, ignore_modules, config, to_collection, filesystem, calls>>

\* The lines are over: _split_matched_unmatched fills matched_files and
\* unmatched_files.
SplitMatchedUnmatched ==
    /\ last.at = "lines"
    /\ LET split == _split_matched_unmatched(Values(last.original_or_archive_files),
                                             last.together,
                                             [matched_files |-> <<>>, unmatched_files |-> <<>>])
       IN  last' = [last EXCEPT !.at = "split", !.matched_files = split.matched_files,
                                !.unmatched_files = split.unmatched_files]
    /\ UNCHANGED <<environ, ignore_modules, config, to_collection, filesystem, calls>>

NextOrphans ==
    \/ \E together \in BOOLEAN : SanityStarts(together)
    \/ \E partial_path \in OrphanPaths : OrphanLine(partial_path)
    \/ SplitMatchedUnmatched

SpecOrphans == InitOrphans /\ [][NextOrphans]_vars

Classifying == last.op = "sanity"

IsIgnored(path) == path.stem = <<DOT_DS_STORE>> /\ path.suffix = ""

IsThumbnail(path) == ~IsIgnored(path) /\ path.dirs # <<>> /\ path.dirs[1] = <<"thumbnails">>

IsOriginalOrArchive(path) ==
    ~IsIgnored(path) /\ path.dirs # <<>> /\ path.dirs[1] \in {<<"archive">>, <<"originals">>}

IsOtherOrphan(path) == ~IsIgnored(path) /\ ~IsThumbnail(path) /\ ~IsOriginalOrArchive(path)

\* The files of the groups of the dictionary, one after the other.
RECURSIVE Grouped(_)
Grouped(groups) == IF groups = <<>> THEN <<>> ELSE Head(groups) \o Grouped(Tail(groups))

\* The sources of a list of orphan files.
Sources(files) == [i \in DOMAIN files |-> files[i].source]

\* How many of the lines are files of the originals or the archive with the key
\* of path.
SameKeyLines(path) ==
    Cardinality({i \in DOMAIN last.paths :
                     /\ IsOriginalOrArchive(last.paths[i])
                     /\ Tail(last.paths[i].dirs) = Tail(path.dirs)
                     /\ last.paths[i].stem = path.stem})

\* Every line is in exactly one collection.
OneBucketPerLine ==
    /\ last.thumbnail_files = SelectSeq(last.paths, IsThumbnail)
    /\ last.orphan_files = SelectSeq(last.paths, IsOtherOrphan)
    /\ \A path \in OrphanPaths :
           Count(Sources(Grouped(Values(last.original_or_archive_files))), path)
               = IF IsOriginalOrArchive(path) THEN Count(last.paths, path) ELSE 0

\* Every file of the originals and the archive is matched or unmatched, never
\* both, matched when its key has exactly two files.
MatchedOrUnmatched ==
    last.at = "split" =>
        /\ \A path \in OrphanPaths :
               /\ Count(Sources(last.matched_files), path)
                      = IF IsOriginalOrArchive(path) /\ SameKeyLines(path) = 2
                        THEN Count(last.paths, path) ELSE 0
               /\ Count(Sources(last.unmatched_files), path)
                      = IF IsOriginalOrArchive(path) /\ SameKeyLines(path) # 2
                        THEN Count(last.paths, path) ELSE 0
        /\ Len(last.matched_files) + Len(last.unmatched_files)
               = Len(SelectSeq(last.paths, IsOriginalOrArchive))

(* C21: the classification of the orphan files by sanity.  Every "Orphaned file
   in media dir:" line lands in exactly one collection: none when the file is
   .DS_Store, thumbnail_files when the first part of the path is thumbnails, the
   groups of the originals and the archive when it is archive or originals,
   orphan_files otherwise.  Every file of the originals and the archive then
   lands in exactly one of matched_files, when its key has exactly two files,
   and unmatched_files, so both together hold as many files as there are lines
   of the originals and the archive. *)
C21_OrphansClassified == Classifying => (OneBucketPerLine /\ MatchedOrUnmatched)

\* Three lines of one key and the run split them: all three are unmatched.
C21_Witness ==
    /\ Classifying
    /\ last.at = "split"
    /\ Len(last.paths) = 3
    /\ \A i \in DOMAIN last.paths : IsOriginalOrArchive(last.paths[i])
    /\ \A i, j \in DOMAIN last.paths : i # j => last.paths[i] # last.paths[j]
    /\ Len(last.unmatched_files) = 3

----------------------------------------------------------------------------
(* magically_add_tasks: visibility and filters on every path *)

\* The task is registered although its module or its own predicate hides it, or
\* the filters reject it.
WronglyRegistered(t, id) ==
    /\ t \in RegisteredTasks(to_collection)
    /\ ~(VisibleTask(t, id) /\ PassesFilters(t, id))

(* C22: visibility and filters hold on every path of magically_add_tasks.  After
   any sequence of calls the target collection and its sub-collections hold no
   regular task of a module whose should_display_tasks() returned False, no
   MagicTask whose should_display() returned False and no task the include and
   exclude filters reject, also when the prefix of a prefixed module is the name
   of an existing task and the sub-collection is added under
   "<prefix>_<slugified module name>". *)
C22_VisibilityAndFiltersOnEveryPath ==
    \A id \in ModuleIds : \A t \in TasksOf(id) : ~WronglyRegistered(t, id)

----------------------------------------------------------------------------
(* conjuring.Spellbook and the file generate_conjuring_init writes *)

\* class Spellbook: the methods it defines, the public ones without "_".
Spellbook ==
    [public |-> {"import_dirs", "cast_all", "cast_only", "cast_all_except"},
     private |-> {"_cast_chosen_spells", "_add_tasks"}]

\* The methods the text calls on Spellbook(), in their order:
\* namespace = Spellbook()${import_dirs}.${function}(${args})
MethodsCalled(text) ==
    LET IsCall(i) == text[i] = ".import_dirs(" \/ (i > 1 /\ text[i - 1] = ".")
        At(i) == IF text[i] = ".import_dirs(" THEN "import_dirs" ELSE text[i]
        positions == {i \in DOMAIN text : IsCall(i)}
        Nth(n) == CHOOSE i \in positions : Cardinality({j \in positions : j < i}) = n - 1
    IN  [n \in 1..Cardinality(positions) |-> At(Nth(n))]

\* Python importing the file: each method is looked up on the object the call
\* before it returned, a name the class does not define raises AttributeError.
ImportConjuringInit(text) ==
    IF \E n \in DOMAIN MethodsCalled(text) :
           MethodsCalled(text)[n] \notin (Spellbook.public \cup Spellbook.private)
    THEN [raised |-> "AttributeError"]
    ELSE [raised |-> "none"]

(* C23: the file generate_conjuring_init writes only calls methods the Spellbook
   class defines.  For every mode the function named after "Spellbook()", and
   import_dirs when directories are given, is a public method of
   conjuring.Spellbook, so importing the generated file does not fail with an
   AttributeError. *)
C23_GeneratedFileCallsSpellbookMethods ==
    (AfterGenerate /\ last.raised = "none") =>
        /\ \A n \in DOMAIN MethodsCalled(last.contents) :
               MethodsCalled(last.contents)[n] \in Spellbook.public
        /\ ImportConjuringInit(last.contents).raised # "AttributeError"

====
